---- MODULE Spec2Model ----
(***************************************************************************)
(* Model of obsidian_import.py: the planner (scan_directory and the        *)
(* functions it calls) and the executor (execute_tasks / execute_task),    *)
(* over a small filesystem.                                                *)
(*                                                                         *)
(* Text is modelled character by character: a string is a sequence of      *)
(* one-character strings, a path relative to the scanned directory is a    *)
(* sequence of names, a file's content is a string holding "\n".           *)
(***************************************************************************)
EXTENDS Integers, Sequences, FiniteSets, TLC

VARIABLES
    fs,        \* regular files: a function from path to content
    dirs,      \* the directories that exist (paths)
    config,    \* metadata_rules, metadata_section_rules
    walk,      \* the documents os.walk yields, in the order it yields them
    scanned,   \* how many of them scan_directory has processed
    tasks,     \* the task list
    pc,        \* where main() is
    idx,       \* position in the group execute_tasks is iterating
    run,       \* number of execute_tasks calls started
    attempts,  \* history: the tasks the current call handed to execute_task, in order
    fs0,       \* history: fs and dirs when the current call started
    tasks0,    \* history: tasks when the current call started
    stats,     \* config["stats"]
    task_ids   \* the ids generate_task_id has returned, one call per task of the list

vars == <<fs, dirs, config, walk, scanned, tasks, pc, idx, run, attempts, fs0, tasks0,
          stats, task_ids>>

None == "None"

\* None where a string is expected, and where a path is expected
NoneStr == <<None>>
NoPath == <<NoneStr>>

----------------------------------------------------------------------------
(* Strings                                                                  *)


RECURSIVE Cat(_)
Cat(ss) == IF ss = <<>> THEN <<>> ELSE Head(ss) \o Cat(Tail(ss))

Rep(c, n) == [i \in 1..n |-> c]

Drop(s, n) == SubSeq(s, n + 1, Len(s))

Take(s, n) == SubSeq(s, 1, n)

StartsWith(s, p) == Len(p) <= Len(s) /\ Take(s, Len(p)) = p

EndsWith(s, p) == Len(p) <= Len(s) /\ Drop(s, Len(s) - Len(p)) = p

\* the least and the greatest index of a set of indices, 0 for the empty set
FirstOf(S) == IF S = {} THEN 0 ELSE CHOOSE i \in S : \A j \in S : i <= j

LastOf(S) == IF S = {} THEN 0 ELSE CHOOSE i \in S : \A j \in S : j <= i

\* str.find: the first index (1-based) at which sub occurs in s, 0 if none
Find(s, sub) ==
    FirstOf({i \in 1..(Len(s) - Len(sub) + 1) : SubSeq(s, i, i + Len(sub) - 1) = sub})

\* str.rfind for one character
RFind(s, c) == LastOf({i \in 1..Len(s) : s[i] = c})

Contains(s, sub) == Find(s, sub) # 0

\* str.replace: every non-overlapping occurrence, left to right
RECURSIVE Replace(_, _, _)
RECURSIVE ReplaceAt(_, _, _, _)
ReplaceAt(s, old, new, i) ==
    IF old = <<>> \/ i = 0 THEN s
    ELSE Take(s, i - 1) \o new \o Replace(Drop(s, i + Len(old) - 1), old, new)

Replace(s, old, new) == ReplaceAt(s, old, new, Find(s, old))

Whitespace == {" ", "\n", "\t"}

RECURSIVE LStrip(_)
LStrip(s) == IF s # <<>> /\ s[1] \in Whitespace THEN LStrip(Tail(s)) ELSE s

RECURSIVE RStrip(_)
RStrip(s) == IF s # <<>> /\ s[Len(s)] \in Whitespace THEN RStrip(Take(s, Len(s) - 1)) ELSE s

Strip(s) == LStrip(RStrip(s))

ColonSpace == <<":", " ">>

\* str.partition(": "), the separator found at index i
PartitionAt(s, i) ==
    IF i = 0 THEN [key |-> s, sep |-> <<>>, value |-> <<>>]
    ELSE [key |-> Take(s, i - 1), sep |-> ColonSpace, value |-> Drop(s, i + 1)]

Partition(s) == PartitionAt(s, Find(s, ColonSpace))

DigitChars == <<"0", "1", "2", "3", "4", "5", "6", "7", "8", "9">>

\* str(n) for n >= 0
RECURSIVE Str(_)
Str(n) == IF n < 10 THEN <<DigitChars[n + 1]>>
          ELSE Str(n \div 10) \o <<DigitChars[(n % 10) + 1]>>

HexChars == {"0", "1", "2", "3", "4", "5", "6", "7", "8", "9",
             "a", "b", "c", "d", "e", "f", "A", "B", "C", "D", "E", "F"}

\* what \w matches among the characters used here
WordChars == HexChars \cup {"_", "g", "i", "m", "n", "p", "t", "x", "z", "G", "M", "R", "T"}

\* str.lower on the characters used here
LowerChar(c) ==
    CASE c = "A" -> "a" [] c = "B" -> "b" [] c = "C" -> "c" [] c = "D" -> "d"
      [] c = "E" -> "e" [] c = "F" -> "f" [] c = "G" -> "g" [] c = "M" -> "m"
      [] c = "P" -> "p" [] c = "N" -> "n" [] c = "R" -> "r" [] c = "T" -> "t"
      [] OTHER -> c

Lower(s) == [i \in 1..Len(s) |-> LowerChar(s[i])]

\* file.readlines(): the lines of a text, each keeping its newline
RECURSIVE ReadLines(_)
RECURSIVE ReadLinesAt(_, _)
ReadLinesAt(text, i) ==
    IF text = <<>> THEN <<>>
    ELSE IF i = 0 THEN <<text>>
    ELSE <<Take(text, i)>> \o ReadLines(Drop(text, i))

ReadLines(text) == ReadLinesAt(text, Find(text, <<"\n">>))

\* file.writelines(lines)
WriteLines(lines) == Cat(lines)

----------------------------------------------------------------------------
(* Paths (pathlib) and URL quoting (urllib.parse)                           *)

UIDLen == 32

MdSuffix == <<".", "m", "d">>

\* PurePath.suffix of a file name: from the last dot (at index i), unless the
\* dot is the first or the last character
SuffixAt(name, i) == IF 1 < i /\ i < Len(name) THEN Drop(name, i - 1) ELSE <<>>

PathSuffix(name) == SuffixAt(name, RFind(name, "."))

\* PurePath.stem of a file name
StemAt(name, i) == IF 1 < i /\ i < Len(name) THEN Take(name, i - 1) ELSE name

PathStem(name) == StemAt(name, RFind(name, "."))

PathName(path) == path[Len(path)]

PathParent(path) == Take(path, Len(path) - 1)

\* str(path) with forward slashes
RECURSIVE PathStr(_)
PathStr(path) ==
    IF path = <<>> THEN <<>>
    ELSE IF Len(path) = 1 THEN path[1]
    ELSE path[1] \o <<"/">> \o PathStr(Tail(path))

\* Path(directory) / s, relative to the scanned directory: split at "/"
RECURSIVE PathOf(_)
RECURSIVE PathOfAt(_, _)
PathOfAt(s, i) ==
    IF i = 0 THEN (IF s = <<>> THEN <<>> ELSE <<s>>)
    ELSE (IF i = 1 THEN <<>> ELSE <<Take(s, i - 1)>>) \o PathOf(Drop(s, i))

PathOf(s) == PathOfAt(s, Find(s, <<"/">>))

\* urllib.parse.quote on the characters used here: letters, digits and
\* "_.-~/" are kept, a space becomes %20
QuoteChar(c) == IF c = " " THEN <<"%", "2", "0">> ELSE <<c>>

Quote(s) == Cat([i \in 1..Len(s) |-> QuoteChar(s[i])])

\* urllib.parse.unquote on the escapes used here
RECURSIVE Unquote(_)
Unquote(s) ==
    IF s = <<>> THEN <<>>
    ELSE IF StartsWith(s, <<"%", "2", "0">>) THEN <<" ">> \o Unquote(Drop(s, 3))
    ELSE <<s[1]>> \o Unquote(Tail(s))

----------------------------------------------------------------------------
(* Tasks.  A task is a record holding exactly the keys the code gives the   *)
(* dict; task.get(k) is Get(task, k).                                        *)

RENAME_MD == "RENAME_MD"
MOVE_ATTACHMENT == "MOVE_ATTACHMENT"
COPY_ATTACHMENT == "COPY_ATTACHMENT"
UPDATE_ATTACH_REF == "UPDATE_ATTACH_REF"
TRANSFORM_METADATA == "TRANSFORM_METADATA"
INSERT_CONTENT == "INSERT_CONTENT"
CLEANUP == "CLEANUP"

Get(d, k) == IF k \in DOMAIN d THEN d[k] ELSE None

\* d.get(k, default)
GetOr(d, k, default) == IF k \in DOMAIN d THEN d[k] ELSE default

\* d[k] = v on a dict
Put(d, k, v) == [x \in DOMAIN d \cup {k} |-> IF x = k THEN v ELSE d[x]]

Indices(s) == [i \in 1..Len(s) |-> i]

\* the indices of s that pass Test, in order
SelectIdx(s, Test(_)) == SelectSeq(Indices(s), Test)

Map(s, Op(_)) == [i \in 1..Len(s) |-> Op(s[i])]

----------------------------------------------------------------------------
(* Metadata rule engine (planning side)                                     *)

\* metadata_rules is a dict: a sequence of [key, actions] in insertion order
RuleKeys(rules) == {rules[i].key : i \in 1..Len(rules)}

RuleFor(rules, key) ==
    rules[CHOOSE i \in 1..Len(rules) : rules[i].key = key].actions

FirstLines == 10

Dashes == <<"-", "-", "-">>

\* the test of step 2 on a line, its stripped text and its partition
StartsBlock(stripped, p, rules) ==
    /\ ~StartsWith(stripped, <<"#">>)
    /\ p.sep # <<>>
    /\ Strip(p.key) \in RuleKeys(rules)

IsStartLine(line, rules) == StartsBlock(Strip(line), Partition(line), rules)

\* metadata_start as a 1-based index, 0 for -1
MetadataStart(content, rules) ==
    FirstOf({i \in 1..Len(content) : i <= FirstLines /\ IsStartLine(content[i], rules)})

\* if not line or line == "---"
StopsBlock(stripped) == stripped = <<>> \/ stripped = Dashes

Stops(content) == {i \in 1..Len(content) : StopsBlock(Strip(content[i]))}

\* the stripped lines between two indices that hold ": "
Included(region) ==
    SelectSeq(Map(region, Strip), LAMBDA line : Contains(line, ColonSpace))

\* the region between the stop line before the start and the stop line after it
Expand(content, before, after) ==
    Included(SubSeq(content, before + 1,
                    IF after = 0 THEN Len(content) ELSE after - 1))

ExpandFrom(content, metadata_start, stops) ==
    Expand(content,
           LastOf({i \in stops : i <= metadata_start}),
           FirstOf({i \in stops : i > metadata_start}))

MetadataRegion(content, metadata_start) ==
    IF metadata_start = 0 THEN <<>>
    ELSE ExpandFrom(content, metadata_start, Stops(content))

MetadataLinesOf(content, rules) == MetadataRegion(content, MetadataStart(content, rules))

read_metadata_lines(text, rules) == MetadataLinesOf(ReadLines(text), rules)

ActionPriority(a) ==
    CASE a.type = "modify_value" -> 0
      [] a.type = "append_after" -> 1
      [] a.type = "rename" -> 2
      [] OTHER -> 999

OfPriority(kept, p) == SelectSeq(kept, LAMBDA a : ActionPriority(a) = p)

\* sorted(...) is stable: the actions of each priority in their listed order
SortByPriority(kept) ==
    OfPriority(kept, 0) \o OfPriority(kept, 1) \o OfPriority(kept, 2)
        \o OfPriority(kept, 999)

\* the actions kept, in the order the rule lists them
ListedActions(actions) ==
    SelectSeq(actions, LAMBDA a : a.type \notin {"retain", "delete"})

sorted_actions(actions) ==
    SortByPriority(SelectSeq(actions, LAMBDA a : a.type \notin {"retain", "delete"}))

\* value_mapping is a dict, a sequence of [from, to]
InMapping(m, v) == \E i \in 1..Len(m) : m[i].from = v

MappingGet(m, v) == m[CHOOSE i \in 1..Len(m) : m[i].from = v].to

\* regex_mapping: the patterns are literal texts without capturing groups, so
\* re.search is a substring test and match.groups() is empty
FirstRegex(regex_mapping, v) ==
    FirstOf({i \in 1..Len(regex_mapping) : Contains(v, regex_mapping[i].regex)})

\* the modify_value branch, r being the first pattern that matches
PlanModify(st, value_mapping, regex_mapping, r) ==
    IF InMapping(value_mapping, st.value)
    THEN [st EXCEPT !.value = MappingGet(value_mapping, st.value), !.modified = TRUE]
    ELSE IF r # 0
    THEN [st EXCEPT !.value = regex_mapping[r].replacement, !.modified = TRUE]
    ELSE st

\* one pass of the loop of apply_metadata_actions over [key, value, modified]
PlanStep(st, action) ==
    CASE action.type = "modify_value" ->
            PlanModify(st, action.value_mapping, action.regex_mapping,
                       FirstRegex(action.regex_mapping, st.value))
      [] action.type = "append_after" ->
            [st EXCEPT !.value = st.value \o action.content, !.modified = TRUE]
      [] action.type = "rename" ->
            [st EXCEPT !.key = action.new_name, !.modified = TRUE]
      [] OTHER -> st

RECURSIVE PlanFold(_, _)
PlanFold(st, acts) ==
    IF acts = <<>> THEN st ELSE PlanFold(PlanStep(st, Head(acts)), Tail(acts))

\* if modified: the replace task
ReplaceTask(key, value, end, current_file) ==
    IF end.modified
    THEN << [type |-> TRANSFORM_METADATA,
             key |-> key,
             old |-> key \o ColonSpace \o value,
             new |-> end.key \o ColonSpace \o end.value,
             action |-> "replace",
             file |-> current_file] >>
    ELSE <<>>

apply_metadata_actions(key, value, actions, current_file) ==
    ReplaceTask(key, value,
                PlanFold([key |-> key, value |-> value, modified |-> FALSE],
                         sorted_actions(actions)),
                current_file)

\* the rule keys, in the order of the configuration, the field key starts with
matching_keys(rules, key) ==
    SelectIdx(rules, LAMBDA i : StartsWith(key, rules[i].key))

InsertTask(action, key, current_file) ==
    [type |-> INSERT_CONTENT,
     position |-> action.at,
     content |-> action.content,
     key |-> key,
     file |-> current_file,
     is_pre_task |-> TRUE,
     status |-> "todo"]

DeleteTask(key, current_file) ==
    [type |-> TRANSFORM_METADATA, key |-> key, action |-> "delete", file |-> current_file]

\* process_metadata_line once the rule's actions are known
TasksForActions(key, value, actions, current_file) ==
    IF \E i \in 1..Len(actions) : actions[i].type = "delete"
    THEN <<DeleteTask(key, current_file)>>
    ELSE IF Len(actions) = 1 /\ actions[1].type = "retain" THEN <<>>
    ELSE Map(SelectSeq(actions, LAMBDA a : a.type = "insert"),
             LAMBDA a : InsertTask(a, key, current_file))
         \o apply_metadata_actions(key, value, actions, current_file)

TasksForKey(key, value, mk, rules, current_file) ==
    IF mk = <<>> THEN <<>>
    ELSE TasksForActions(key, value, rules[mk[1]].actions, current_file)

TasksForField(p, rules, current_file) ==
    IF p.sep = <<>> THEN <<>>
    ELSE TasksForKey(p.key, Strip(p.value), matching_keys(rules, p.key), rules,
                     current_file)

process_metadata_line(line, rules, current_file) ==
    TasksForField(Partition(line), rules, current_file)

\* task["status"] = "todo" on every metadata task
InitStatus(task) == Put(task, "status", "todo")

generate_metadata_tasks(text, rules, current_file) ==
    Map(Cat(Map(read_metadata_lines(text, rules),
                LAMBDA line : process_metadata_line(line, rules, current_file))),
        InitStatus)

----------------------------------------------------------------------------
(* Attachment resolver and document scanner                                 *)

\* config.get("attachment_output_path", "Resource")
ResourceName == <<"R", "e", "s", "o", "u", "r", "c", "e">>

resource_dir == <<ResourceName>>

supported_extensions ==
    { <<".", "p", "n", "g">>, <<".", "j", "p", "g">>, <<".", "j", "p", "e", "g">>,
      <<".", "g", "i", "f">>, <<".", "b", "m", "p">>, <<".", "m", "p", "4">>,
      <<".", "m", "o", "v">>, <<".", "a", "v", "i">>, <<".", "m", "k", "v">>,
      <<".", "p", "d", "f">>, <<".", "h", "e", "i", "c">>, <<".", "w", "e", "b", "p">>,
      <<".", "q", "t">>, <<".", "m", "4", "a">>, <<".", "m", "p", "3">>,
      <<".", "w", "a", "v">> }

Exists(path) == path \in DOMAIN fs \/ path \in dirs

IsFile(path) == path \in DOMAIN fs

\* Path.iterdir(): the files and directories directly inside dir
IterDir(dir) == {q \in DOMAIN fs \cup dirs : q # <<>> /\ PathParent(q) = dir}

\* a space and 32 word characters at the end of s: what r" \w{32}$" matches
EndsWithUID(s) ==
    /\ Len(s) >= UIDLen + 1
    /\ s[Len(s) - UIDLen] = " "
    /\ \A i \in (Len(s) - UIDLen + 1)..Len(s) : s[i] \in WordChars

\* re.search(r" (\w{32})\.md$", ...)
HasUID(name) ==
    EndsWith(name, MdSuffix) /\ EndsWithUID(Take(name, Len(name) - Len(MdSuffix)))

UIDOf(name) == SubSeq(name, Len(name) - Len(MdSuffix) - UIDLen + 1, Len(name) - Len(MdSuffix))

\* the directories beside the document whose name holds its UID; the code takes
\* the first one iterdir() yields
AttachmentDirs(original_path) ==
    IF HasUID(PathName(original_path))
    THEN {d \in dirs : /\ d # <<>>
                       /\ PathParent(d) = PathParent(original_path)
                       /\ Contains(PathName(d), UIDOf(PathName(original_path)))}
    ELSE {}

\* re.findall(r"!?\[.*?\]\((.*?)\)", line) on one line ('.' matches no newline):
\* the text after the first "[", then after the first "](", up to the first ")"
RECURSIVE FindRefsLine(_)
RECURSIVE RefsClosed(_, _)
RefsClosed(r2, k) ==
    IF k = 0 THEN <<>> ELSE <<Take(r2, k - 1)>> \o FindRefsLine(Drop(r2, k))

RefsTarget(r2) == RefsClosed(r2, Find(r2, <<")">>))

RefsBracket(r1, j) == IF j = 0 THEN <<>> ELSE RefsTarget(Drop(r1, j + 1))

RefsOpened(r1) == RefsBracket(r1, Find(r1, <<"]", "(">>))

RefsFrom(s, i) == IF i = 0 THEN <<>> ELSE RefsOpened(Drop(s, i))

FindRefsLine(s) == RefsFrom(s, Find(s, <<"[">>))

WithoutNewline(line) == IF EndsWith(line, <<"\n">>) THEN Take(line, Len(line) - 1) ELSE line

attachment_references(text) ==
    Cat(Map(ReadLines(text), LAMBDA l : FindRefsLine(WithoutNewline(l))))

Http == <<"h", "t", "t", "p", ":", "/", "/">>

Https == <<"h", "t", "t", "p", "s", ":", "/", "/">>

local_references(text) ==
    SelectSeq(attachment_references(text),
              LAMBDA ref : ~StartsWith(ref, Http) /\ ~StartsWith(ref, Https))

\* path_mapping[old] = new on a dict kept as a sequence of [old, new]
MappingPut(m, old, new) ==
    IF \E i \in 1..Len(m) : m[i].old = old
    THEN [i \in 1..Len(m) |-> IF m[i].old = old THEN [old |-> old, new |-> new] ELSE m[i]]
    ELSE Append(m, [old |-> old, new |-> new])

\* base.ext for counter 0, base_<counter>.ext after it
AttachmentName(base_name, suffix, counter) ==
    IF counter = 0 THEN base_name \o suffix
    ELSE base_name \o <<"_">> \o Str(counter) \o suffix

\* the while loop of the copy branch: the first of these names that does not
\* exist in the resource directory
RECURSIVE UnusedAttachmentName(_, _, _)
UnusedAttachmentName(base_name, suffix, counter) ==
    IF Exists(Append(resource_dir, AttachmentName(base_name, suffix, counter)))
    THEN UnusedAttachmentName(base_name, suffix, counter + 1)
    ELSE AttachmentName(base_name, suffix, counter)

MoveTask(ref_path, new_attachment_path) ==
    [type |-> MOVE_ATTACHMENT, src |-> ref_path, dest |-> new_attachment_path,
     is_pre_task |-> FALSE, status |-> "todo"]

\* variant: the copy is not marked as a pre-task
CopyTaskInListOrder(ref_path, new_attachment_path) ==
    [type |-> COPY_ATTACHMENT, src |-> ref_path, dest |-> new_attachment_path,
     is_pre_task |-> FALSE, status |-> "todo"]

CopyTask(ref_path, new_attachment_path) ==
    [type |-> COPY_ATTACHMENT, src |-> ref_path, dest |-> new_attachment_path,
     is_pre_task |-> TRUE, status |-> "todo"]

CleanupTask(attachment_dir) == [type |-> CLEANUP, dest |-> attachment_dir]

\* the branch for an attachment of the document's own directory
MoveRef(st, ref_path, old_path, new_attachment_path) ==
    [path_mapping |-> MappingPut(st.path_mapping, old_path, PathStr(new_attachment_path)),
     moved |-> st.moved + 1,
     out |-> Append(st.out, MoveTask(ref_path, new_attachment_path))]

\* the branch for any other attachment
CopyRef(st, ref_path, old_path, new_attachment_path) ==
    [path_mapping |-> MappingPut(st.path_mapping, old_path, PathStr(new_attachment_path)),
     moved |-> st.moved,
     out |-> Append(st.out, CopyTask(ref_path, new_attachment_path))]

\* one pass of the loop over local_references for a reference that resolves
\* to ref_path, stem being original_path.stem
RefAt(st, ref_path, old_path, stem, attachment_dir) ==
    IF ~Exists(ref_path) THEN st
    ELSE IF ~IsFile(ref_path) THEN st
    ELSE IF Lower(PathSuffix(PathName(ref_path))) \notin supported_extensions THEN st
    ELSE IF attachment_dir # NoPath /\ PathParent(ref_path) = attachment_dir
    THEN MoveRef(st, ref_path, old_path,
                 Append(resource_dir, stem \o <<"_">> \o PathName(ref_path)))
    ELSE CopyRef(st, ref_path, old_path,
                 Append(resource_dir,
                        UnusedAttachmentName(stem, PathSuffix(PathName(ref_path)), 0)))

RefResolved(st, ref_path, stem, attachment_dir) ==
    RefAt(st, ref_path, Quote(PathStr(ref_path)), stem, attachment_dir)

\* one pass of the loop, on [path_mapping, moved, out]
RefStep(st, ref, original_path, attachment_dir) ==
    RefResolved(st, PathOf(Unquote(ref)), PathStem(PathName(original_path)),
                attachment_dir)

RECURSIVE RefFold(_, _, _, _)
RefFold(st, refs, original_path, attachment_dir) ==
    IF refs = <<>> THEN st
    ELSE RefFold(RefStep(st, Head(refs), original_path, attachment_dir),
                 Tail(refs), original_path, attachment_dir)

\* moved_files_count == len(attachment_files)
AllMoved(moved_files_count, attachment_dir) ==
    moved_files_count = Cardinality(IterDir(attachment_dir))

\* step 3: the cleanup task joins the tasks when the counts agree
WithCleanup(end, attachment_dir) ==
    [path_mapping |-> end.path_mapping,
     out |-> IF /\ attachment_dir # NoPath
                /\ Exists(attachment_dir)
                /\ AllMoved(end.moved, attachment_dir)
             THEN Append(end.out, CleanupTask(attachment_dir))
             ELSE end.out]

\* a document without content has no references
ScanRefs(refs, original_path, attachment_dir) ==
    IF refs = <<>> THEN [path_mapping |-> <<>>, out |-> <<>>]
    ELSE WithCleanup(RefFold([path_mapping |-> <<>>, moved |-> 0, out |-> <<>>],
                             refs, original_path, attachment_dir),
                     attachment_dir)

\* returns [path_mapping, out]: the mapping and the tasks appended to the list
scan_attachments(original_path, attachment_dir) ==
    ScanRefs(local_references(fs[original_path]), original_path, attachment_dir)

\* re.sub(r" \w{32}$", "", stem)
StripUID(stem) == IF EndsWithUID(stem) THEN Take(stem, Len(stem) - UIDLen - 1) ELSE stem

\* the stems of the destinations of the rename tasks planned so far
RenameStems(ts) ==
    {PathStem(PathName(ts[i].dest)) : i \in {j \in 1..Len(ts) : ts[j].type = RENAME_MD}}

\* base for counter 0, base_<counter> after it
CandidateName(base_name, counter) ==
    IF counter = 0 THEN base_name ELSE base_name \o <<"_">> \o Str(counter)

\* the while loop: the first of these names not among the stems
RECURSIVE UnusedName(_, _, _)
UnusedName(base_name, counter, taken) ==
    IF CandidateName(base_name, counter) \in taken
    THEN UnusedName(base_name, counter + 1, taken)
    ELSE CandidateName(base_name, counter)

RenameTask(original_path, new_name) ==
    [type |-> RENAME_MD, src |-> original_path, dest |-> <<new_name \o MdSuffix>>,
     status |-> "todo"]

generate_rename_markdown_task(original_path, ts) ==
    RenameTask(original_path,
               UnusedName(StripUID(PathStem(PathName(original_path))), 0, RenameStems(ts)))

UpdateTask(original_path, path_mapping) ==
    [type |-> UPDATE_ATTACH_REF, file |-> original_path, path_mapping |-> path_mapping]

SectionTask(rule, original_path, key) ==
    [type |-> INSERT_CONTENT, file |-> original_path,
     position |-> IF rule.position = "first" THEN "before" ELSE "after",
     content |-> rule.content, key |-> key, is_pre_task |-> TRUE, status |-> "todo"]

\* step 1: the separator tasks, then the metadata tasks
SectionTasks(metadata_tasks, original_path) ==
    IF metadata_tasks = <<>> THEN <<>>
    ELSE Map(SelectSeq(config.metadata_section_rules,
                       LAMBDA r : r.type = "insert" /\ r.position \in {"first", "last"}),
             LAMBDA r : SectionTask(r, original_path,
                                    IF r.position = "first"
                                    THEN metadata_tasks[1].key
                                    ELSE metadata_tasks[Len(metadata_tasks)].key))
         \o metadata_tasks

\* step 3: the update task, if file_path_mapping is not empty
UpdateTasks(original_path, path_mapping) ==
    IF path_mapping # <<>> THEN <<UpdateTask(original_path, path_mapping)>> ELSE <<>>

\* step 4: the rename task sees every task planned before it
WithRename(original_path, before) ==
    Append(before, generate_rename_markdown_task(original_path, before))

Planned(original_path, ts, metadata_tasks, att) ==
    WithRename(original_path,
               ts \o SectionTasks(metadata_tasks, original_path)
                  \o att.out \o UpdateTasks(original_path, att.path_mapping))

\* the task list after scan_markdown_file has handled one document
scan_markdown_file(original_path, attachment_dir, ts) ==
    Planned(original_path, ts,
            generate_metadata_tasks(fs[original_path], config.metadata_rules, original_path),
            scan_attachments(original_path, attachment_dir))

----------------------------------------------------------------------------
(* Executor: the effect of each kind of task                                *)

\* an effect's outcome: whether it raised, and the filesystem it leaves
Outcome(raised, f, d) == [raised |-> raised, fs |-> f, dirs |-> d]

Remove(f, path) == [q \in DOMAIN f \ {path} |-> f[q]]

Store(f, path, content) == [q \in DOMAIN f \cup {path} |-> IF q = path THEN content ELSE f[q]]

IsUnder(q, dir) == Len(q) >= Len(dir) /\ Take(q, Len(dir)) = dir

\* Path(src).rename(dest), as on POSIX: an existing destination file is replaced
PathRename(src, dest, fault) ==
    IF fault \/ ~IsFile(src) \/ dest \in dirs \/ PathParent(dest) \notin dirs
    THEN Outcome(TRUE, fs, dirs)
    ELSE IF src = dest THEN Outcome(FALSE, fs, dirs)
    ELSE Outcome(FALSE, Store(Remove(fs, src), dest, fs[src]), dirs)

\* shutil.copy(src, dest)
ShutilCopy(src, dest, fault) ==
    IF fault \/ ~IsFile(src) \/ src = dest \/ PathParent(dest) \notin dirs
    THEN Outcome(TRUE, fs, dirs)
    ELSE IF dest \in dirs
    THEN Outcome(FALSE, Store(fs, Append(dest, PathName(src)), fs[src]), dirs)
    ELSE Outcome(FALSE, Store(fs, dest, fs[src]), dirs)

\* the CLEANUP branch: unlink a file, rmdir or rmtree a directory
CleanupEffect(dest_path, fault) ==
    IF ~Exists(dest_path) THEN Outcome(FALSE, fs, dirs)
    ELSE IF fault THEN Outcome(TRUE, fs, dirs)
    ELSE IF IsFile(dest_path) THEN Outcome(FALSE, Remove(fs, dest_path), dirs)
    ELSE Outcome(FALSE,
                 [q \in {x \in DOMAIN fs : ~IsUnder(x, dest_path)} |-> fs[q]],
                 {d \in dirs : ~IsUnder(d, dest_path)})

\* if old_path in line: line = line.replace(old_path, quote(new_path))
ReplaceIfIn(line, old_path, encoded_new_path) ==
    IF Contains(line, old_path) THEN Replace(line, old_path, encoded_new_path) ELSE line

\* the inner loop of update_references_in_markdown on one line
RECURSIVE UpdateLine(_, _)
UpdateLine(line, path_mapping) ==
    IF path_mapping = <<>> THEN line
    ELSE UpdateLine(ReplaceIfIn(line, Head(path_mapping).old,
                                Quote(Head(path_mapping).new)),
                    Tail(path_mapping))

\* safe_open_file returns None when the file cannot be opened, and the
\* function returns without writing
update_references_in_markdown(file, path_mapping, fault) ==
    IF fault \/ ~IsFile(file) THEN Outcome(FALSE, fs, dirs)
    ELSE Outcome(FALSE,
                 Store(fs, file,
                       WriteLines(Map(ReadLines(fs[file]),
                                      LAMBDA l : UpdateLine(l, path_mapping)))),
                 dirs)

\* the regex loop of apply_action, r being the first pattern that matches
RegexAt(new_value, regex_mapping, r) ==
    IF r = 0 THEN new_value
    ELSE Replace(new_value, regex_mapping[r].regex, regex_mapping[r].replacement)

Regexed(new_value, regex_mapping) ==
    RegexAt(new_value, regex_mapping, FirstRegex(regex_mapping, new_value))

\* if new_value in value_mapping: new_value = value_mapping[new_value]
Mapped(new_value, value_mapping) ==
    IF InMapping(value_mapping, new_value) THEN MappingGet(value_mapping, new_value)
    ELSE new_value

\* apply_action on [key, value]; key = NoneStr signals a deletion
apply_action(kv, action) ==
    CASE action.type = "delete" -> [key |-> NoneStr, value |-> NoneStr]
      [] action.type = "rename" -> [key |-> action.new_name, value |-> kv.value]
      [] action.type = "modify_value" ->
            [key |-> kv.key,
             value |-> Regexed(Mapped(Strip(kv.value), action.value_mapping),
                               action.regex_mapping)]
      [] action.type = "append_after" ->
            [key |-> kv.key, value |-> Strip(kv.value) \o action.content]
      [] OTHER -> kv

\* the actions of a rule applied in their listed order, stopping at a deletion
RECURSIVE ApplyActions(_, _)
ApplyActions(kv, actions) ==
    IF actions = <<>> \/ kv.key = NoneStr THEN kv
    ELSE ApplyActions(apply_action(kv, Head(actions)), Tail(actions))

\* if current_key is not None: the transformed line, which has no newline
TransformedLine(kv) ==
    IF kv.key = NoneStr THEN <<>> ELSE <<kv.key \o ColonSpace \o kv.value>>

TransformField(line, p, rules) ==
    IF p.sep = <<>> THEN <<line>>
    ELSE IF p.key \notin RuleKeys(rules) THEN <<line>>
    ELSE TransformedLine(ApplyActions([key |-> p.key, value |-> Strip(p.value)],
                                      RuleFor(rules, p.key)))

\* what transform_metadata puts in transformed_lines for one line
TransformLine(line, rules) ==
    IF StartsWith(Strip(line), <<"#">>) THEN <<>>
    ELSE TransformField(line, Partition(line), rules)

transform_metadata(lines, rules) ==
    Cat(Map(lines, LAMBDA l : TransformLine(l, rules)))

\* metadata_end_index: the 0-based index of the first blank line, 0 if none
MetadataEnd(first_blank) == IF first_blank = 0 THEN 0 ELSE first_blank - 1

metadata_end_index(content) ==
    MetadataEnd(FirstOf({i \in 1..Len(content) : Strip(content[i]) = <<>>}))

\* content = transformed_metadata + content[metadata_end_index:]
MappedContent(content, end) ==
    transform_metadata(Take(content, end), config.metadata_rules) \o Drop(content, end)

MappedLines(content) == MappedContent(content, metadata_end_index(content))

map_metadata(file, fault) ==
    IF fault \/ ~IsFile(file) THEN Outcome(FALSE, fs, dirs)
    ELSE Outcome(FALSE, Store(fs, file, WriteLines(MappedLines(ReadLines(fs[file])))), dirs)

\* the lines the loop of insert_content_in_file appends for one line
InsertAround(line, position, content, hit) ==
    (IF position = "before" /\ hit THEN <<content>> ELSE <<>>)
    \o <<line>>
    \o (IF position = "after" /\ hit THEN <<content>> ELSE <<>>)

InsertLine(line, task) ==
    InsertAround(line, task.position, task.content \o <<"\n">>,
                 StartsWith(line, task.key \o <<":">>))

insert_content_in_file(task, fault) ==
    IF fault \/ ~IsFile(task.file) THEN Outcome(FALSE, fs, dirs)
    ELSE Outcome(FALSE,
                 Store(fs, task.file,
                       WriteLines(Cat(Map(ReadLines(fs[task.file]),
                                          LAMBDA l : InsertLine(l, task))))),
                 dirs)

\* the branch of execute_task for the task's type
Effect(task, fault) ==
    CASE task.type = RENAME_MD -> PathRename(task.src, task.dest, fault)
      [] task.type = MOVE_ATTACHMENT -> PathRename(task.src, task.dest, fault)
      [] task.type = COPY_ATTACHMENT -> ShutilCopy(task.src, task.dest, fault)
      [] task.type = UPDATE_ATTACH_REF ->
            update_references_in_markdown(task.file, GetOr(task, "path_mapping", <<>>), fault)
      [] task.type = TRANSFORM_METADATA -> map_metadata(task.file, fault)
      [] task.type = INSERT_CONTENT -> insert_content_in_file(task, fault)
      [] task.type = CLEANUP -> CleanupEffect(task.dest, fault)
      [] OTHER -> Outcome(FALSE, fs, dirs)

\* variant: only a done task is skipped, a failed one is tried again
SkipsDone(task) == Get(task, "status") = "done"

\* if task.get("status") in ["done", "fail"]: return
Skips(task) == Get(task, "status") \in {"done", "fail"}

\* variant: only a failure is recorded in the task
FinishMarksFailureOnly(task, o) ==
    [raised |-> o.raised,
     task |-> IF o.raised THEN Put(task, "status", "fail") ELSE task,
     fs |-> o.fs, dirs |-> o.dirs]

\* task["status"] = "done", or "fail" in the except clause, which re-raises
Finish(task, o) ==
    [raised |-> o.raised,
     task |-> Put(task, "status", IF o.raised THEN "fail" ELSE "done"),
     fs |-> o.fs, dirs |-> o.dirs]

\* execute_task: [raised, task, fs, dirs]
execute_task(task, fault) ==
    IF Skips(task)
    THEN [raised |-> FALSE, task |-> task, fs |-> fs, dirs |-> dirs]
    ELSE Finish(task, Effect(task, fault))

IsPreTask(task) == GetOr(task, "is_pre_task", FALSE)

\* the two groups of execute_tasks, as positions in the task list
pre_tasks(ts) == SelectIdx(ts, LAMBDA i : IsPreTask(ts[i]))

\* variant: the second loop runs over the whole list
EveryTask(ts) == Indices(ts)

main_tasks(ts) == SelectIdx(ts, LAMBDA i : ~IsPreTask(ts[i]))
----------------------------------------------------------------------------
(* Task ids and statistics                                                  *)

IdLen == 5

\* generate_task_id(): "task" and the first IdLen hexadecimal digits of a
\* random uuid4. Any such text can come out, whatever came out before; two of
\* them are the outcomes drawn here.
generate_task_id == {<<"t", "a", "s", "k">> \o Rep(c, IdLen) : c \in {"0", "f"}}

\* config before scan_directory: it has no "stats"
NoStats == <<>>

initialize_scan_stats ==
    [markdown_files |-> 0, attachments |-> 0, conflicts |-> 0, metadata_tasks |-> 0,
     unmapped_metadata |-> <<>>, used_names |-> {}, errors |-> 0]

RECURSIVE SumSeq(_)
SumSeq(ns) == IF ns = <<>> THEN 0 ELSE Head(ns) + SumSeq(Tail(ns))

\* a byte that is no UTF-8 text
BadByte == "0xFF"

\* open(md_file, "r", encoding="utf-8") and readlines() succeed
Decodable(text) == \A i \in 1..Len(text) : text[i] # BadByte

\* process_metadata_line: the error logged for a field no rule key starts
UnruledField(p, rules) ==
    IF p.sep # <<>> /\ matching_keys(rules, p.key) = <<>> THEN 1 ELSE 0

MetadataErrors(text, rules) ==
    SumSeq(Map(read_metadata_lines(text, rules),
               LAMBDA line : UnruledField(Partition(line), rules)))

\* a reference that is not found, or is a file with an unsupported extension:
\* debug() counts the error it logs and the next statement counts it again
RefErrors(ref_path) ==
    IF ~Exists(ref_path) THEN 2
    ELSE IF /\ IsFile(ref_path)
            /\ Lower(PathSuffix(PathName(ref_path))) \notin supported_extensions
    THEN 2
    ELSE 0

\* the errors scan_attachments counts: one for a document without content
AttachmentErrors(text) ==
    IF text = <<>> THEN 1
    ELSE SumSeq(Map(local_references(text), LAMBDA ref : RefErrors(PathOf(Unquote(ref)))))

\* the counters after scan_markdown_file has handled one document
ScanStats(st, text, rules, original_path) ==
    [st EXCEPT
        !.markdown_files = @ + 1,
        !.metadata_tasks = @ + Len(generate_metadata_tasks(text, rules, original_path)),
        !.errors = @ + MetadataErrors(text, rules) + AttachmentErrors(text)]

\* apply_action logs an error for an action type it has no branch for; the
\* loop of transform_metadata stops at a deletion
RECURSIVE ActionErrors(_)
ActionErrors(actions) ==
    IF actions = <<>> \/ Head(actions).type = "delete" THEN 0
    ELSE (IF Head(actions).type \in {"rename", "modify_value", "append_after"}
          THEN 0 ELSE 1)
         + ActionErrors(Tail(actions))

\* transform_metadata logs an error for a field without a rule
FieldErrors(p, rules) ==
    IF p.sep = <<>> THEN 0
    ELSE IF p.key \notin RuleKeys(rules) THEN 1
    ELSE ActionErrors(RuleFor(rules, p.key))

LineErrors(line, rules) ==
    IF StartsWith(Strip(line), <<"#">>) THEN 0 ELSE FieldErrors(Partition(line), rules)

TransformErrors(content) ==
    SumSeq(Map(Take(content, metadata_end_index(content)),
               LAMBDA l : LineErrors(l, config.metadata_rules)))

\* the errors logged inside the branch of execute_task for the task's type
BranchErrors(task, fault) ==
    CASE task.type = CLEANUP -> IF Exists(task.dest) THEN 0 ELSE 1
      [] task.type = TRANSFORM_METADATA ->
            IF fault \/ ~IsFile(task.file) THEN 0
            ELSE TransformErrors(ReadLines(fs[task.file]))
      [] OTHER -> 0

\* what one call of execute_task adds to stats["errors"]: the errors of the
\* branch, and the "Task failed" of the except clause
ExecuteErrors(task, fault) ==
    IF Skips(task) THEN 0
    ELSE BranchErrors(task, fault) + (IF Effect(task, fault).raised THEN 1 ELSE 0)

----------------------------------------------------------------------------
(* The trees the model scans                                                *)

MaxDocs == 3

MaxRefs == 2

MaxRuns == 2

Space == <<" ">>

U1 == Rep("a", UIDLen)              \* an identifier
WordTail == Rep("z", UIDLen)        \* 32 word characters that are not hexadecimal
ShortTail == Rep("a", UIDLen - 1)   \* one character short of an identifier

\* a tree: its files, its directories, the configuration, the walk order
Tree(files, ds, rules, section, order) ==
    [fs |-> [p \in {files[i][1] : i \in 1..Len(files)} |->
                files[CHOOSE i \in 1..Len(files) : files[i][1] = p][2]],
     dirs |-> {<<>>} \cup ds,
     config |-> [metadata_rules |-> rules, metadata_section_rules |-> section],
     walk |-> order]

Body == <<"x", "\n">>

\* --- documents that differ in their names only, one per directory
DocTails == {<<>>, Space \o U1, Space \o WordTail, Space \o ShortTail}

DocStems == {<<"A">> \o t : t \in DocTails} \cup {<<"A", "_", "1">>, Space \o U1}

DocDir(i) == <<"d", DigitChars[i + 1]>>

RenameTree(stems) ==
    LET Doc(i) == <<DocDir(i), stems[i] \o MdSuffix>>
    IN Tree([i \in 1..Len(stems) |-> <<Doc(i), Body>>],
            {<<DocDir(i)>> : i \in 1..Len(stems)},
            <<>>, <<>>,
            [i \in 1..Len(stems) |-> Doc(i)])

RenameTrees ==
    {RenameTree(stems) : stems \in UNION {[1..n -> DocStems] : n \in 1..MaxDocs}}

\* --- a document with an attachment directory, and files elsewhere
PngA == <<"a", ".", "p", "n", "g">>
PngB == <<"b", ".", "p", "n", "g">>
PngC == <<"c", ".", "p", "n", "g">>
PngE == <<"e", ".", "P", "N", "G">>
PngG == <<"g", ".", "p", "n", "g">>
TxtN == <<"n", ".", "t", "x", "t">>

DStem == <<"D">> \o Space \o U1

DDoc == <<DStem \o MdSuffix>>

DDir == <<DStem>>

ImgDir == <<<<"i">>>>

EDoc == <<<<"E">> \o MdSuffix>>

\* what a document may reference: files of D's directory, files elsewhere
\* (one with an unsupported extension), and a network address
RefTargets ==
    { PathStr(Append(DDir, PngA)), PathStr(Append(DDir, PngB)),
      PathStr(Append(ImgDir, PngC)), PathStr(Append(ImgDir, PngG)),
      PathStr(Append(ImgDir, PngE)), PathStr(Append(ImgDir, TxtN)),
      Https \o <<"x">> }

Link(target) == <<"!", "[", "]", "(">> \o Quote(target) \o <<")", "\n">>

DocText(refs) == IF refs = <<>> THEN Body ELSE Cat(Map(refs, Link))

OtherFiles ==
    << <<Append(ImgDir, PngC), <<"c">>>>, <<Append(ImgDir, PngG), <<"g">>>>,
       <<Append(ImgDir, PngE), <<"e">>>>,
       <<Append(ImgDir, TxtN), <<"n">>>> >>

AttachTree(refs, withB) ==
    Tree(<< <<DDoc, DocText(refs)>>, <<Append(DDir, PngA), <<"a">>>> >>
         \o (IF withB THEN << <<Append(DDir, PngB), <<"b">>>> >> ELSE <<>>)
         \o OtherFiles,
         {DDir, ImgDir}, <<>>, <<>>, <<DDoc>>)

AttachTrees ==
    {AttachTree(refs, withB) :
        refs \in UNION {[1..n -> RefTargets] : n \in 0..MaxRefs}, withB \in BOOLEAN}

\* --- two documents in the scanned directory, one with an attachment
\* directory, which may reference the same files
CrossTree(drefs, erefs, dFirst) ==
    Tree(<< <<DDoc, DocText(drefs)>>, <<EDoc, DocText(erefs)>>,
            <<Append(DDir, PngA), <<"a">>>> >> \o OtherFiles,
         {DDir, ImgDir}, <<>>, <<>>,
         IF dFirst THEN <<DDoc, EDoc>> ELSE <<EDoc, DDoc>>)

CrossRefs == { PathStr(Append(DDir, PngA)), PathStr(Append(ImgDir, PngC)),
               PathStr(Append(ImgDir, PngG)) }

CrossTrees ==
    {CrossTree(drefs, erefs, dFirst) :
        drefs \in {<<>>, <<PathStr(Append(DDir, PngA))>>},
        erefs \in [1..1 -> CrossRefs] \cup [1..2 -> CrossRefs],
        dFirst \in BOOLEAN}

\* --- a document with a metadata block, under a rule configuration
KeyT == <<"T">>
KeyK == <<"K">>

MetaTexts ==
    { <<"T", ":", " ", "v", "\n", "\n", "x", "\n">>,
      <<"T", ":", " ", "v", "\n", "K", ":", " ", "k", "\n", "\n", "x", "\n">>,
      <<"#", " ", "h", "\n", "T", ":", " ", "v", "\n", "K", ":", " ", "k", "\n", "\n">>
          \o Link(PathStr(Append(ImgDir, PngC))),
      <<"#", " ", "h", "\n", "\n", "T", ":", " ", "v", "\n", "\n", "x", "\n">>,
      <<"T", ":", " ", "v", "\n", "K", ":", " ", "k", "\n", "\n", "x", "\n", "\n">>,
      <<"T", ":", " ", "v", "\n", "T", ":", " ", "u", "\n", "\n", "x", "\n">> }

Delete == [type |-> "delete"]
Retain == [type |-> "retain"]
RenameTo(n) == [type |-> "rename", new_name |-> n]
AppendAfter(c) == [type |-> "append_after", content |-> c]
InsertAt(at, c) == [type |-> "insert", at |-> at, content |-> c]
ModifyValue(m, r) == [type |-> "modify_value", value_mapping |-> m, regex_mapping |-> r]

Rule(k, actions) == [key |-> k, actions |-> actions]

MetaRules ==
    { << Rule(KeyT, <<Delete>>) >>,
      << Rule(KeyT, <<Retain>>) >>,
      << Rule(KeyT, << RenameTo(<<"U">>), AppendAfter(<<"!">>),
                       ModifyValue(<<[from |-> <<"v">>, to |-> <<"w">>]>>, <<>>) >>) >>,
      << Rule(KeyT, << InsertAt("before", <<"-">>),
                       ModifyValue(<<>>, <<[regex |-> <<"v">>, replacement |-> <<"w">>]>>) >>) >>,
      << Rule(KeyT, <<AppendAfter(<<"!">>)>>),
         Rule(KeyK, <<Delete, InsertAt("after", <<"+">>)>>) >>,
      << Rule(KeyT, << ModifyValue(<<[from |-> <<"v">>, to |-> <<"w">>]>>, <<>>),
                       AppendAfter(<<"!">>), Delete, RenameTo(<<"U">>), Retain >>) >>,
      << Rule(KeyT, <<Retain>>), Rule(KeyK, <<AppendAfter(<<"!">>)>>) >> }

SectionRules ==
    { <<>>,
      << [type |-> "insert", position |-> "first", content |-> Dashes],
         [type |-> "insert", position |-> "last", content |-> Dashes] >> }

MDoc == <<<<"M">> \o MdSuffix>>

MetaTrees ==
    {Tree(<< <<MDoc, text>> >> \o OtherFiles, {ImgDir}, rules, section, <<MDoc>>) :
        text \in MetaTexts, rules \in MetaRules, section \in SectionRules}

\* --- a document with a field whose key equals one rule key and begins with
\* another, the two rules in either order
KeyTK == <<"T", "K">>

PrefixTree(exactFirst) ==
    Tree(<< <<MDoc, <<"T", "K", ":", " ", "v", "\n", "\n", "x", "\n">>>> >>, {},
         IF exactFirst
         THEN << Rule(KeyTK, <<Delete>>), Rule(KeyT, <<AppendAfter(<<"!">>)>>) >>
         ELSE << Rule(KeyT, <<AppendAfter(<<"!">>)>>), Rule(KeyTK, <<Delete>>) >>,
         <<>>, <<MDoc>>)

PrefixTrees == {PrefixTree(exactFirst) : exactFirst \in BOOLEAN}

\* --- a document with a field whose rule leaves the line as it is
IdleActions ==
    { AppendAfter(<<>>),
      RenameTo(KeyT),
      ModifyValue(<<[from |-> <<"v">>, to |-> <<"v">>]>>, <<>>) }

IdleTrees ==
    {Tree(<< <<MDoc, <<"T", ":", " ", "v", "\n", "\n", "x", "\n">>>> >>, {},
          << Rule(KeyT, <<action>>) >>, <<>>, <<MDoc>>) : action \in IdleActions}

\* --- a document with a line that is no field between two fields, and a
\* document whose first field stands below the first lines
GapTexts ==
    { <<"T", ":", " ", "v", "\n", "z", "\n", "K", ":", " ", "k", "\n", "\n", "x", "\n">>,
      Cat([i \in 1..FirstLines |-> <<"z", "\n">>]) \o <<"T", ":", " ", "v", "\n">> }

GapTrees ==
    {Tree(<< <<MDoc, text>> >>, {},
          << Rule(KeyT, <<Retain>>), Rule(KeyK, <<AppendAfter(<<"!">>)>>) >>,
          <<>>, <<MDoc>>) : text \in GapTexts}

\* --- a document that references the file of its attachment directory and
\* then, possibly, a file whose name ends the new name of the first
UnderA == <<"_", "a", ".", "p", "n", "g">>

ChainTree(more) ==
    Tree(<< <<DDoc, DocText(<<PathStr(Append(DDir, PngA))>> \o more)>>,
            <<Append(DDir, PngA), <<"a">>>>,
            <<<<UnderA>>, <<"u">>>> >>,
         {DDir}, <<>>, <<>>, <<DDoc>>)

ChainTrees == {ChainTree(more) : more \in {<<>>, <<UnderA>>}}

\* --- what a run leaves of 'E.md' referencing 'i/c.png' beside 'A.md': the
\* copy in the resource directory, referenced there
ADoc == <<<<"A">> \o MdSuffix>>

PngOfE == <<"E">> \o <<".", "p", "n", "g">>

ConsolidatedTree(eFirst) ==
    Tree(<< <<EDoc, DocText(<<PathStr(Append(resource_dir, PngOfE))>>)>>,
            <<ADoc, Body>>,
            <<Append(resource_dir, PngOfE), <<"c">>>>,
            <<Append(ImgDir, PngC), <<"c">>>> >>,
         {resource_dir, ImgDir}, <<>>, <<>>,
         IF eFirst THEN <<EDoc, ADoc>> ELSE <<ADoc, EDoc>>)

ConsolidatedTrees == {ConsolidatedTree(eFirst) : eFirst \in BOOLEAN}

\* --- 'A <id>.md' beside 'A.md' in the scanned directory
AUDoc == <<<<"A">> \o Space \o U1 \o MdSuffix>>

OverwriteTree(uFirst) ==
    Tree(<< <<AUDoc, <<"y", "\n">>>>, <<ADoc, Body>> >>, {}, <<>>, <<>>,
         IF uFirst THEN <<AUDoc, ADoc>> ELSE <<ADoc, AUDoc>>)

\* the same, 'A.md' holding a field that a rule deletes
OverwriteRuledTree ==
    Tree(<< <<AUDoc, <<"y", "\n">>>>,
            <<ADoc, <<"T", ":", " ", "v", "\n", "\n", "x", "\n">>>> >>,
         {}, << Rule(KeyT, <<Delete>>) >>, <<>>, <<AUDoc, ADoc>>)

OverwriteTrees == {OverwriteTree(uFirst) : uFirst \in BOOLEAN} \cup {OverwriteRuledTree}

\* --- a document whose link to the file of its attachment directory is
\* written with the space of the directory's name, not percent-encoded
PlainLink(target) == <<"!", "[", "]", "(">> \o target \o <<")", "\n">>

PlainLinkTree(withB) ==
    Tree(<< <<DDoc, PlainLink(PathStr(Append(DDir, PngA)))>>,
            <<Append(DDir, PngA), <<"a">>>> >>
         \o (IF withB THEN << <<Append(DDir, PngB), <<"b">>>> >> ELSE <<>>),
         {DDir}, <<>>, <<>>, <<DDoc>>)

PlainLinkTrees == {PlainLinkTree(withB) : withB \in BOOLEAN}

\* --- a document with a defect, and a sound document beside it
PngH == <<"h", ".", "p", "n", "g">>

BDoc == <<<<"B">> \o MdSuffix>>

DefectTexts ==
    { <<BadByte, "\n">>,
      DocText(<<PathStr(Append(ImgDir, PngH))>>),
      DocText(<<PathStr(Append(ImgDir, TxtN))>>) }

DefectTree(text, bFirst) ==
    Tree(<< <<BDoc, text>>, <<EDoc, DocText(<<PathStr(Append(ImgDir, PngC))>>)>> >>
         \o OtherFiles,
         {ImgDir}, <<>>, <<>>,
         IF bFirst THEN <<BDoc, EDoc>> ELSE <<EDoc, BDoc>>)

DefectTrees == {DefectTree(text, bFirst) : text \in DefectTexts, bFirst \in BOOLEAN}

----------------------------------------------------------------------------
(* main(): scan_directory, the confirmation, execute_tasks                  *)

Start(tree) ==
        /\ fs = tree.fs
        /\ dirs = tree.dirs
        /\ config = tree.config
        /\ walk = tree.walk
        /\ scanned = 0
        /\ tasks = <<>>
        /\ pc = "start"
        /\ idx = 0
        /\ run = 0
        /\ attempts = <<>>
        /\ fs0 = [fs |-> tree.fs, dirs |-> tree.dirs]
        /\ tasks0 = <<>>
        /\ stats = NoStats
        /\ task_ids = {}

Init ==
    \/ \E tree \in RenameTrees : Start(tree)
    \/ \E tree \in AttachTrees : Start(tree)
    \/ \E tree \in CrossTrees : Start(tree)
    \/ \E tree \in MetaTrees : Start(tree)
    \/ \E tree \in ChainTrees : Start(tree)
    \/ \E tree \in ConsolidatedTrees : Start(tree)
    \/ \E tree \in DefectTrees : Start(tree)
    \/ \E tree \in OverwriteTrees : Start(tree)
    \/ \E tree \in PlainLinkTrees : Start(tree)
    \/ \E tree \in PrefixTrees : Start(tree)
    \/ \E tree \in IdleTrees : Start(tree)
    \/ \E tree \in GapTrees : Start(tree)

\* scan_directory up to its first document: config["stats"] is initialised,
\* resource_dir.mkdir(exist_ok=True)
ScanDirectory ==
    /\ pc = "start"
    /\ stats' = initialize_scan_stats
    /\ dirs' = dirs \cup {resource_dir}
    /\ pc' = IF walk = <<>> THEN "scanned" ELSE "scan"
    /\ UNCHANGED <<fs, config, walk, scanned, tasks, idx, run, attempts, fs0, tasks0,
                   task_ids>>

\* attachment_dir: one of the directories found, None if there is none
OrNoPath(found) == IF found = {} THEN {NoPath} ELSE found

\* the tasks join the list, each with the id generate_task_id returned for it
Issue(planned) ==
    /\ tasks' = planned
    /\ \E id \in [(Len(tasks) + 1)..Len(planned) -> generate_task_id] :
            task_ids' = task_ids \cup {id[i] : i \in DOMAIN id}

\* scan_markdown_file on the next document of the walk
ScanMarkdownFile ==
    /\ pc = "scan"
    /\ Decodable(fs[walk[scanned + 1]])
    /\ \E attachment_dir \in OrNoPath(AttachmentDirs(walk[scanned + 1])) :
            Issue(scan_markdown_file(walk[scanned + 1], attachment_dir, tasks))
    /\ stats' = ScanStats(stats, fs[walk[scanned + 1]], config.metadata_rules,
                          walk[scanned + 1])
    /\ scanned' = scanned + 1
    /\ pc' = IF scanned + 1 = Len(walk) THEN "scanned" ELSE "scan"
    /\ UNCHANGED <<fs, dirs, config, walk, idx, run, attempts, fs0, tasks0>>

\* scan_markdown_file on a document that cannot be decoded: the open() of
\* read_metadata_lines raises, nothing between it and the interpreter catches
\* the exception, and main() ends there
ScanMarkdownFileRaises ==
    /\ pc = "scan"
    /\ ~Decodable(fs[walk[scanned + 1]])
    /\ stats' = [stats EXCEPT !.markdown_files = @ + 1]
    /\ pc' = "aborted"
    /\ UNCHANGED <<fs, dirs, config, walk, scanned, tasks, idx, run, attempts, fs0,
                   tasks0, task_ids>>

\* confirm_execution() answers no: main returns
Cancel ==
    /\ pc = "scanned"
    /\ pc' = "cancelled"
    /\ UNCHANGED <<fs, dirs, config, walk, scanned, tasks, idx, run, attempts, fs0, tasks0,
                   stats, task_ids>>

\* where execute_tasks stands once it has dealt with position i of a group
Position(group, i, ts) ==
    IF group = "pre" /\ i <= Len(pre_tasks(ts)) THEN [pc |-> "pre", idx |-> i]
    ELSE IF group = "pre" /\ main_tasks(ts) # <<>> THEN [pc |-> "main", idx |-> 1]
    ELSE IF group = "main" /\ i <= Len(main_tasks(ts)) THEN [pc |-> "main", idx |-> i]
    ELSE [pc |-> "returned", idx |-> 0]

\* the loops go on at position p
Goto(p) == pc' = p.pc /\ idx' = p.idx

\* execute_tasks is entered: the groups are computed
Enter ==
    /\ Goto(Position("pre", 1, tasks))
    /\ run' = run + 1
    /\ attempts' = <<>>
    /\ fs0' = [fs |-> fs, dirs |-> dirs]
    /\ tasks0' = tasks
    /\ UNCHANGED <<fs, dirs, config, walk, scanned, tasks, stats, task_ids>>

\* confirm_execution() answers yes
execute_tasks ==
    /\ pc = "scanned"
    /\ Enter

\* execute_tasks is called again on the same list: the rerun that the skip of
\* execute_task supports
Rerun ==
    /\ pc \in {"returned", "raised"}
    /\ run < MaxRuns
    /\ Enter

\* one pass of a loop of execute_tasks: execute_task on the task at position idx
\* execute_task on task i has returned or raised r; an exception leaves
\* execute_tasks at once
After(group, i, r) ==
    /\ tasks' = [tasks EXCEPT ![i] = r.task]
    /\ fs' = r.fs
    /\ dirs' = r.dirs
    /\ attempts' = Append(attempts, i)
    /\ Goto(IF r.raised THEN [pc |-> "raised", idx |-> idx]
            ELSE Position(group, idx + 1, tasks))

Step(group, order) ==
    /\ pc = group
    /\ \E fault \in BOOLEAN :
            /\ After(group, order[idx], execute_task(tasks[order[idx]], fault))
            /\ stats' = [stats EXCEPT !.errors = @ + ExecuteErrors(tasks[order[idx]], fault)]
    /\ UNCHANGED <<config, walk, scanned, run, fs0, tasks0, task_ids>>

ExecutePreTask == Step("pre", pre_tasks(tasks))

ExecuteMainTask == Step("main", main_tasks(tasks))

Next ==
    \/ ScanDirectory
    \/ ScanMarkdownFile
    \/ ScanMarkdownFileRaises
    \/ Cancel
    \/ execute_tasks
    \/ Rerun
    \/ ExecutePreTask
    \/ ExecuteMainTask

Spec == Init /\ [][Next]_vars

----------------------------------------------------------------------------
(* Properties                                                               *)

\* task.get("status")
Status(task) == Get(task, "status")

Terminal == {"done", "fail"}

\* execute_tasks has been entered
Executing == pc \in {"pre", "main", "returned", "raised"}

\* task i carries is_pre_task = True
MarkedPre(i) == "is_pre_task" \in DOMAIN tasks[i] /\ tasks[i].is_pre_task

\* the task the next pass of a loop of execute_tasks hands to execute_task
CurrentTask == tasks[(IF pc = "pre" THEN pre_tasks(tasks) ELSE main_tasks(tasks))[idx]]

\* C1: within one call of execute_tasks the tasks are handed to execute_task
\* in this order: the tasks marked is_pre_task in list order, then the others
\* in list order; a task that is not a pre-task comes only after every
\* pre-task; a call that returns has gone through every task of the list.
C1_PreTasksThenMainTasks ==
    /\ \A a, b \in 1..Len(attempts) :
          a < b =>
            \/ MarkedPre(attempts[a]) /\ ~MarkedPre(attempts[b])
            \/ /\ MarkedPre(attempts[a]) = MarkedPre(attempts[b])
               /\ attempts[a] < attempts[b]
    /\ \A a \in 1..Len(attempts) :
          ~MarkedPre(attempts[a]) =>
            \A i \in 1..Len(tasks) :
              MarkedPre(i) => \E b \in 1..(a - 1) : attempts[b] = i
    /\ pc = "returned" =>
          \A i \in 1..Len(tasks) : \E a \in 1..Len(attempts) : attempts[a] = i

\* C1 witness: a call has returned in which a pre-task that stands later in
\* the list was handled before a task that is not a pre-task
C1_PreTaskOvertakes ==
    /\ pc = "returned"
    /\ \E a, b \in 1..Len(attempts) :
          /\ a < b
          /\ MarkedPre(attempts[a])
          /\ ~MarkedPre(attempts[b])
          /\ attempts[b] < attempts[a]

\* C2: when a task's effect raises, the task is marked fail and the batch goes
\* on, so that once execute_tasks is over every task of the list is done or fail.
C2_BatchContinuesAfterFailure ==
    (/\ pc \in {"returned", "raised"}
     /\ \E i \in 1..Len(tasks) : Status(tasks[i]) = "fail")
    => \A i \in 1..Len(tasks) : Status(tasks[i]) \in Terminal

\* execute_task on a task that is done or fail changes neither the files nor
\* the directories nor any task
SkipIsInert ==
    [][(pc \in {"pre", "main"} /\ Status(CurrentTask) \in Terminal)
        => (fs' = fs /\ dirs' = dirs /\ tasks' = tasks)]_vars

\* a call of execute_tasks that starts with every task done or fail leaves the
\* files, the directories and the tasks as they were when it started
RerunChangesNothing ==
    (/\ Executing
     /\ \A i \in 1..Len(tasks0) : Status(tasks0[i]) \in Terminal)
    => (fs = fs0.fs /\ dirs = fs0.dirs /\ tasks = tasks0)

\* C3: execute_task on a task whose status is done or fail has no effect on
\* the filesystem or on any file's text and leaves the status as it is; so
\* execute_tasks run again over a list that was executed changes neither the
\* filesystem nor a status.
C3_TerminalTasksAreSkipped == []RerunChangesNothing /\ SkipIsInert

\* C3 witness: a second call of execute_tasks has returned over a list of
\* several tasks, each done or fail when the call started, one of them fail
C3_RerunOverExecutedList ==
    /\ run >= 2
    /\ pc = "returned"
    /\ Len(tasks) >= 2
    /\ \A i \in 1..Len(tasks0) : Status(tasks0[i]) \in Terminal
    /\ \E i \in 1..Len(tasks) : Status(tasks[i]) = "fail"

\* C4: a task's status changes only from todo to done or from todo to fail;
\* a status that is done or fail never changes again.
C4_StatusOnlyLeavesTodo ==
    [][\A i \in 1..Len(tasks) :
          (i <= Len(tasks') /\ Status(tasks'[i]) # Status(tasks[i]))
            => (Status(tasks[i]) = "todo" /\ Status(tasks'[i]) \in Terminal)]_vars

\* C5: when scanning ends, every task of the list, of every kind, carries the
\* status todo.
C5_PlannedTasksAreTodo ==
    pc = "scanned" => \A i \in 1..Len(tasks) : Status(tasks[i]) = "todo"

\* C6: a Cleanup task is planned for an attachment directory only if every
\* file of that directory is the source of a MoveAttachment task.
C6_CleanupOnlyWhenEveryFileMoves ==
    pc \in {"scan", "scanned"} =>
      \A i \in 1..Len(tasks) :
        tasks[i].type = CLEANUP =>
          \A f \in DOMAIN fs :
            (f # <<>> /\ PathParent(f) = tasks[i].dest) =>
              \E j \in 1..Len(tasks) :
                tasks[j].type = MOVE_ATTACHMENT /\ tasks[j].src = f

\* C7: no two RenameDocument tasks of the list have the same destination stem
\* (every destination lies in the scanned directory and ends in .md, so two
\* tasks with the same destination path are two tasks with the same stem).
C7_RenameDestinationsDistinct ==
    \A i, j \in 1..Len(tasks) :
      (i < j /\ tasks[i].type = RENAME_MD /\ tasks[j].type = RENAME_MD)
        => tasks[i].dest # tasks[j].dest

\* a space and 32 hexadecimal characters at the end of s
EndsWithHexUID(s) ==
    /\ Len(s) >= UIDLen + 1
    /\ s[Len(s) - UIDLen] = " "
    /\ \A i \in (Len(s) - UIDLen + 1)..Len(s) : s[i] \in HexChars

\* the name of a document without .md
DocStem(path) == Take(PathName(path), Len(PathName(path)) - Len(MdSuffix))

\* the name of a document without .md and without a trailing identifier
DocBase(path) ==
    IF EndsWithHexUID(DocStem(path))
    THEN Take(DocStem(path), Len(DocStem(path)) - UIDLen - 1)
    ELSE DocStem(path)

RenameTasks == SelectSeq(tasks, LAMBDA t : t.type = RENAME_MD)

\* base, base_1, base_2, ...
Numbered(base, k) == IF k = 0 THEN base ELSE base \o <<"_">> \o Str(k)

\* C8: when the N > 1 documents scanned have the same base name once the
\* identifier is stripped, their rename destinations are base, base_1, ...,
\* base_(N-1) in scan order.
C8_SameBaseNumberedInScanOrder ==
    (/\ pc = "scanned"
     /\ Len(walk) > 1
     /\ \A i \in 1..Len(walk) : DocBase(walk[i]) = DocBase(walk[1]))
    => \A k \in 1..Len(RenameTasks) :
          RenameTasks[k].dest = <<Numbered(DocBase(walk[1]), k - 1) \o MdSuffix>>

\* C9: the first rename planned (no earlier destination to collide with) goes
\* to the document's name without a trailing space and 32 hexadecimal
\* characters; a name that does not end that way is kept as it is.
C9_StripsExactlyTheIdentifier ==
    \A i \in 1..Len(tasks) :
      (/\ tasks[i].type = RENAME_MD
       /\ \A j \in 1..(i - 1) : tasks[j].type # RENAME_MD)
      => tasks[i].dest = <<DocBase(tasks[i].src) \o MdSuffix>>

\* C10: no two MoveAttachment or CopyAttachment tasks of the list, planned
\* for two different attachments, have the same destination path.
C10_AttachmentDestinationsDistinct ==
    \A i, j \in 1..Len(tasks) :
      (/\ i < j
       /\ tasks[i].type \in {MOVE_ATTACHMENT, COPY_ATTACHMENT}
       /\ tasks[j].type \in {MOVE_ATTACHMENT, COPY_ATTACHMENT}
       /\ tasks[i].src # tasks[j].src)
      => tasks[i].dest # tasks[j].dest

\* the document a task of the list was planned for: every document's tasks
\* end with its rename task
OwnerOf(j) ==
    tasks[FirstOf({k \in j..Len(tasks) : tasks[k].type = RENAME_MD})].src

\* the destination the claim gives the only attachment of a document
SoleAttachmentDest(doc, src) ==
    Append(resource_dir, DocBase(doc) \o PathSuffix(PathName(src)))

SoleAttachmentAt(j, doc) ==
    Len(local_references(fs[doc])) = 1
      => tasks[j].dest = SoleAttachmentDest(doc, tasks[j].src)

\* C11: the move or copy task planned for a document that references exactly
\* one local attachment goes to the resource directory under the document's
\* name without identifier followed by the attachment's extension, and
\* nothing else.
C11_SoleAttachmentTakesDocumentName ==
    pc \in {"scan", "scanned"} =>
      \A j \in 1..Len(tasks) :
        tasks[j].type \in {MOVE_ATTACHMENT, COPY_ATTACHMENT}
          => SoleAttachmentAt(j, OwnerOf(j))

\* the keys of the mapping that occur in the text at position p
KeysAt(text, mapping, p) ==
    {i \in 1..Len(mapping) :
        /\ mapping[i].old # <<>>
        /\ p + Len(mapping[i].old) - 1 <= Len(text)
        /\ SubSeq(text, p, p + Len(mapping[i].old) - 1) = mapping[i].old}

\* text with every occurrence of a key of the mapping replaced by the
\* percent-encoded path the mapping gives that key, read from left to right;
\* p is the first position at which a key occurs, k the key taken there
RECURSIVE EveryKeyReplaced(_, _)
ReplacedWith(text, mapping, p, k) ==
    Take(text, p - 1) \o Quote(mapping[k].new)
        \o EveryKeyReplaced(Drop(text, p - 1 + Len(mapping[k].old)), mapping)

ReplacedFrom(text, mapping, p) ==
    IF p = 0 THEN text
    ELSE ReplacedWith(text, mapping, p, FirstOf(KeysAt(text, mapping, p)))

EveryKeyReplaced(text, mapping) ==
    ReplacedFrom(text, mapping,
                 FirstOf({p \in 1..Len(text) : KeysAt(text, mapping, p) # {}}))

\* what the claim says of the text before and after the rewrite
Rewritten(before, after, mapping) ==
    /\ \A i \in 1..Len(mapping) : ~Contains(after, mapping[i].old)
    /\ after = EveryKeyReplaced(before, mapping)

\* execute_task on an UpdateReferences task that rewrites its document
UpdateRewrites(task) ==
    (/\ task.type = UPDATE_ATTACH_REF
     /\ ~Skips(task)
     /\ fs' # fs)
    => Rewritten(fs[task.file], fs'[task.file], task.path_mapping)

\* C12: once an UpdateReferences task has rewritten its document, the text
\* holds no key of the task's path mapping, and it is the former text with
\* every occurrence of a key replaced by the percent-encoded new path of that
\* key.
C12_EveryReferenceRewritten ==
    [][(pc \in {"pre", "main"}) => (UpdateRewrites(CurrentTask))]_vars

\* the documents scan_directory has dealt with
ScannedDocs == {walk[i] : i \in 1..scanned}

\* the key of a line of text, as written before the first ": "
KeyOfLine(line) == Partition(Strip(line)).key

KeysOfLines(lines) == {KeyOfLine(lines[i]) : i \in 1..Len(lines)}

\* the keys of the lines of a document
DocKeys(text) == KeysOfLines(ReadLines(text))

\* a rule that holds a delete action together with a modify_value,
\* append_after, rename or retain action
DeleteWithOthers(actions) ==
    /\ \E i \in 1..Len(actions) : actions[i].type = "delete"
    /\ \E i \in 1..Len(actions) :
          actions[i].type \in {"modify_value", "append_after", "rename", "retain"}

\* the field's key and the keys its rule would rename it to
NamesUnder(key, actions) ==
    {key} \cup {actions[i].new_name :
                  i \in {j \in 1..Len(actions) : actions[j].type = "rename"}}

\* the TransformMetadata tasks planned for the field key of a document
TransformTasksFor(doc, key) ==
    SelectSeq(tasks, LAMBDA t : t.type = TRANSFORM_METADATA /\ t.file = doc /\ t.key = key)

\* one deletion task for each of n lines, and no other transformation
OnlyDeletions(planned, n) ==
    /\ Len(planned) = n
    /\ \A i \in 1..Len(planned) : planned[i].action = "delete"

\* the planning half, for the metadata lines of a document
DeletionsPlanned(doc, lines, rules) ==
    \A i \in 1..Len(lines) :
      (/\ KeyOfLine(lines[i]) \in RuleKeys(rules)
       /\ DeleteWithOthers(RuleFor(rules, KeyOfLine(lines[i]))))
      => OnlyDeletions(TransformTasksFor(doc, KeyOfLine(lines[i])),
                       Cardinality({j \in 1..Len(lines) :
                                      KeyOfLine(lines[j]) = KeyOfLine(lines[i])}))

\* the execution half: execute_task on a deletion task whose document can be
\* read leaves no line under the field's key or under a key it is renamed to
DeletionExecuted(task, rules) ==
    (/\ task.type = TRANSFORM_METADATA
     /\ task.action = "delete"
     /\ ~Skips(task)
     /\ IsFile(task.file)
     /\ task.key \in RuleKeys(rules)
     /\ DeleteWithOthers(RuleFor(rules, task.key)))
    => DocKeys(execute_task(task, FALSE).fs[task.file])
         \cap NamesUnder(task.key, RuleFor(rules, task.key)) = {}

\* C13: for a field whose rule holds a delete action beside other actions,
\* the scan plans one TransformMetadata deletion task per line of the field
\* and no replace task, and executing the task leaves the document without
\* the field's line, transformed or not.
C13_DeleteOverridesOtherActions ==
    /\ pc \in {"scan", "scanned"} =>
          \A doc \in ScannedDocs :
            DeletionsPlanned(doc, read_metadata_lines(fs[doc], config.metadata_rules),
                             config.metadata_rules)
    /\ pc \in {"pre", "main"} => DeletionExecuted(CurrentTask, config.metadata_rules)

\* the field's line after the task: gone for a deletion task, the planned new
\* line for a replace task
FieldLineIs(task, lines) ==
    IF task.action = "delete" THEN task.key \notin KeysOfLines(lines)
    ELSE \E i \in 1..Len(lines) : Strip(lines[i]) = Strip(task.new)

\* execute_task on a TransformMetadata task whose document can be read
TransformAgrees(task) ==
    (task.type = TRANSFORM_METADATA /\ IsFile(task.file))
      => FieldLineIs(task, ReadLines(execute_task(task, FALSE).fs[task.file]))

\* C14: executing a planned TransformMetadata task on the document as it was
\* scanned leaves the field's line equal to the new line the planner put in
\* the task, or without the line for a deletion task.
C14_ExecutorMatchesPlanner ==
    pc = "scanned" => \A i \in 1..Len(tasks) : TransformAgrees(tasks[i])

\* the actions of one type, in the order the rule lists them
ActionsOfType(actions, type) == SelectSeq(actions, LAMBDA a : a.type = type)

\* a value after one modify_value action: the direct map, else the first
\* pattern that matches, else the value as it is; r is that pattern's index
ModifiedAt(value, action, r) ==
    IF InMapping(action.value_mapping, value) THEN MappingGet(action.value_mapping, value)
    ELSE IF r # 0 THEN action.regex_mapping[r].replacement
    ELSE value

RECURSIVE ModifiedBy(_, _)
ModifiedBy(value, modifies) ==
    IF modifies = <<>> THEN value
    ELSE ModifiedBy(ModifiedAt(value, Head(modifies),
                               FirstRegex(Head(modifies).regex_mapping, value)),
                    Tail(modifies))

AppendedBy(value, appends) == value \o Cat(Map(appends, LAMBDA a : a.content))

RenamedBy(key, renames) ==
    IF renames = <<>> THEN key ELSE renames[Len(renames)].new_name

\* modify_value, then append_after, then rename, each on the output of the
\* previous
ExpectedNew(key, value, actions) ==
    RenamedBy(key, ActionsOfType(actions, "rename")) \o ColonSpace
        \o AppendedBy(ModifiedBy(value, ActionsOfType(actions, "modify_value")),
                      ActionsOfType(actions, "append_after"))

\* a rule without delete that holds several actions
SeveralActions(actions) ==
    /\ \A i \in 1..Len(actions) : actions[i].type # "delete"
    /\ Len(actions) > 1

\* the replace tasks planned for a line of a document
ReplaceTasksFor(doc, key, value) ==
    SelectSeq(tasks, LAMBDA t : /\ t.type = TRANSFORM_METADATA
                                /\ t.file = doc
                                /\ t.action = "replace"
                                /\ t.old = key \o ColonSpace \o value)

EveryNewIs(planned, new) == \A i \in 1..Len(planned) : planned[i].new = new

PlannedInFixedOrder(doc, p, rules) ==
    (p.key \in RuleKeys(rules) /\ SeveralActions(RuleFor(rules, p.key)))
      => EveryNewIs(ReplaceTasksFor(doc, p.key, Strip(p.value)),
                    ExpectedNew(p.key, Strip(p.value), RuleFor(rules, p.key)))

LinesInFixedOrder(doc, lines, rules) ==
    \A i \in 1..Len(lines) : PlannedInFixedOrder(doc, Partition(lines[i]), rules)

\* C15: the new line of a replace task planned for a field whose rule holds
\* several actions, none of them delete, is the field with modify_value
\* applied, then append_after, then rename, whatever the order the rule
\* lists them in.
C15_PlannedInPriorityOrder ==
    pc \in {"scan", "scanned"} =>
      \A doc \in ScannedDocs :
        LinesInFixedOrder(doc, read_metadata_lines(fs[doc], config.metadata_rules),
                          config.metadata_rules)

\* the rule lists a rename before a modify_value
RenameListedFirst(actions) ==
    \E i, j \in 1..Len(actions) :
      i < j /\ actions[i].type = "rename" /\ actions[j].type = "modify_value"

\* the task's new line has another key and a value the old one does not start
NewKeyNewValue(old, new) == old.key # new.key /\ ~StartsWith(new.value, old.value)

\* C15 witness: a replace task is planned for a field whose rule lists rename
\* before modify_value, with the key renamed and the value mapped
C15_RenameListedBeforeModify ==
    /\ pc = "scanned"
    /\ \E i \in 1..Len(tasks) :
          /\ tasks[i].type = TRANSFORM_METADATA
          /\ tasks[i].action = "replace"
          /\ tasks[i].key \in RuleKeys(config.metadata_rules)
          /\ RenameListedFirst(RuleFor(config.metadata_rules, tasks[i].key))
          /\ NewKeyNewValue(Partition(tasks[i].old), Partition(tasks[i].new))

\* every reference is to a file of the resource directory
RefsConsolidated(refs) ==
    \A i \in 1..Len(refs) :
      /\ IsFile(PathOf(Unquote(refs[i])))
      /\ PathParent(PathOf(Unquote(refs[i]))) = resource_dir

\* the tree is what a run leaves: every document lies in the scanned
\* directory under a name without identifier, and every attachment
\* referenced lies in the resource directory
Consolidated ==
    \A i \in 1..Len(walk) :
      /\ Len(walk[i]) = 1
      /\ ~EndsWithHexUID(DocStem(walk[i]))
      /\ RefsConsolidated(local_references(fs[walk[i]]))

\* C16: scan_directory on a tree that a run has left plans no RenameDocument,
\* MoveAttachment or CopyAttachment task.
C16_RescanPlansNothing ==
    (pc = "scanned" /\ Consolidated) =>
      \A i \in 1..Len(tasks) :
        tasks[i].type \notin {RENAME_MD, MOVE_ATTACHMENT, COPY_ATTACHMENT}

\* C17: no two tasks created in one run have the same id: every task of the
\* list got its id from one call of generate_task_id, and the ids returned
\* are as many as the tasks.
C17_TaskIdsDistinct == Cardinality(task_ids) = Len(tasks)

\* the tasks that move a file out of a directory
MovesFrom(dir) ==
    {i \in 1..Len(tasks) : tasks[i].type = MOVE_ATTACHMENT /\ PathParent(tasks[i].src) = dir}

\* fewer moves than files in the directory
FilesUnmapped(dir) == Cardinality(MovesFrom(dir)) < Cardinality(IterDir(dir))

\* a task takes the directory itself somewhere else
DirectoryMoved(dir) ==
    \E i \in 1..Len(tasks) : "src" \in DOMAIN tasks[i] /\ tasks[i].src = dir

CleanupPlanned(dir) ==
    \E i \in 1..Len(tasks) : tasks[i].type = CLEANUP /\ tasks[i].dest = dir

\* C18: once a document is scanned whose attachment directory holds more
\* files than the scan planned moves out of it, the task list holds a task
\* that moves the directory (to the trash location) and no CLEANUP task for
\* the directory.
C18_UnmappedDirectoryGoesToTrash ==
    pc \in {"scan", "scanned"} =>
        \A k \in 1..scanned : \A dir \in AttachmentDirs(walk[k]) :
            FilesUnmapped(dir) => DirectoryMoved(dir) /\ ~CleanupPlanned(dir)

\* the rule of the key has a modify_value action whose direct map lacks the value
NotCovered(actions, value) ==
    \E a \in 1..Len(actions) :
        /\ actions[a].type = "modify_value"
        /\ ~InMapping(actions[a].value_mapping, value)

FieldNotCovered(p, rules) ==
    /\ p.sep # <<>>
    /\ p.key \in RuleKeys(rules)
    /\ NotCovered(RuleFor(rules, p.key), Strip(p.value))

\* the registry holds the value once, under the key
InRegistry(registry, key, value) ==
    Cardinality({e \in 1..Len(registry) :
                    registry[e].key = key /\ value \in registry[e].values}) = 1

FieldRecorded(p, rules) ==
    FieldNotCovered(p, rules) =>
        InRegistry(stats.unmapped_metadata, p.key, Strip(p.value))

LinesRecorded(lines, rules) ==
    \A n \in 1..Len(lines) : FieldRecorded(Partition(lines[n]), rules)

\* C19: after a scan, every value observed in a metadata line whose rule has
\* a modify_value action with a direct map that does not cover the value is
\* in the unmapped-metadata registry of the statistics, once, under the
\* field's key.
C19_UnmappedValuesRecorded ==
    pc = "scanned" =>
        \A doc \in ScannedDocs :
            LinesRecorded(read_metadata_lines(fs[doc], config.metadata_rules),
                          config.metadata_rules)

\* a reference to a file that is not there, or to a file whose extension is
\* not supported
DefectiveRef(ref_path) ==
    \/ ~Exists(ref_path)
    \/ IsFile(ref_path) /\ Lower(PathSuffix(PathName(ref_path))) \notin supported_extensions

DefectiveRefs(refs) ==
    {n \in 1..Len(refs) : DefectiveRef(PathOf(Unquote(refs[n])))}

\* the defects of a document: it cannot be decoded, or so many of its
\* references are defective
Defects(text) ==
    IF Decodable(text) THEN Cardinality(DefectiveRefs(local_references(text))) ELSE 1

HasTasks(doc) ==
    \E j \in 1..Len(tasks) : tasks[j].type = RENAME_MD /\ tasks[j].src = doc

\* C20: a missing attachment, an attachment with an unsupported extension or
\* a document that cannot be decoded never aborts scan_directory: the scan
\* does not end in an exception, and once it is over every document of the
\* walk has its tasks and the error counter of the statistics is at least
\* the number of defects met.
C20_ScanSurvivesDefects ==
    /\ pc # "aborted"
    /\ pc = "scanned" =>
          /\ \A k \in 1..Len(walk) : HasTasks(walk[k])
          /\ stats.errors >= SumSeq([k \in 1..Len(walk) |-> Defects(fs[walk[k]])])

\* C21: planning leaves the filesystem unchanged: until execute_tasks is
\* entered, the files, their contents and the directories are those the
\* scan started from.
C21_PlanningLeavesFilesystem ==
    ~Executing => fs = fs0.fs /\ dirs = fs0.dirs

\* the tasks the current call of execute_tasks has not handed to execute_task
NotAttempted == {i \in 1..Len(tasks) : \A a \in 1..Len(attempts) : attempts[a] # i}

\* C22: when a task's effect raises, the exception leaves execute_tasks at
\* once: the task that raised is marked fail, every task handled before it
\* is done (or was skipped as failed by an earlier call), and every task
\* after it in execution order was not attempted and has status todo.
C22_FailureStopsTheBatch ==
    pc = "raised" =>
        /\ Status(tasks[attempts[Len(attempts)]]) = "fail"
        /\ \A a \in 1..(Len(attempts) - 1) :
              \/ Status(tasks[attempts[a]]) = "done"
              \/ Status(tasks0[attempts[a]]) = "fail" /\ Status(tasks[attempts[a]]) = "fail"
        /\ \A i \in NotAttempted : Status(tasks[i]) = "todo"

\* the lines of a text that are fields of its metadata block under a rule
\* whose only action is retain
RetainOnly(rules, key) == key \in RuleKeys(rules) /\ RuleFor(rules, key) = <<Retain>>

InBlock(line, text, rules) ==
    \E n \in 1..Len(read_metadata_lines(text, rules)) :
        read_metadata_lines(text, rules)[n] = Strip(line)

RetainedLines(text, rules) ==
    {line \in {ReadLines(text)[n] : n \in 1..Len(ReadLines(text))} :
        /\ RetainOnly(rules, Partition(line).key)
        /\ InBlock(line, text, rules)}

\* the path the document's rename task gives it
RenameDest(doc) ==
    tasks[CHOOSE j \in 1..Len(tasks) : tasks[j].type = RENAME_MD /\ tasks[j].src = doc].dest

HasLine(text, line) == \E n \in 1..Len(ReadLines(text)) : ReadLines(text)[n] = line

\* no task of the document is about the field
NoTaskFor(doc, key) ==
    \A j \in 1..Len(tasks) :
        ~("file" \in DOMAIN tasks[j] /\ "key" \in DOMAIN tasks[j]
          /\ tasks[j].file = doc /\ tasks[j].key = key)

\* the first call of execute_tasks has returned with every task done
AllExecuted == pc = "returned" /\ run = 1 /\ \A j \in 1..Len(tasks) : Status(tasks[j]) = "done"

\* C23: a metadata field whose rule's only action is retain produces no
\* task, and once every task of the list has been executed its line is a
\* line of the document, with the same text.
C23_RetainedFieldUntouched ==
    /\ pc = "scanned" =>
          \A doc \in ScannedDocs :
              \A line \in RetainedLines(fs[doc], config.metadata_rules) :
                  NoTaskFor(doc, Partition(line).key)
    /\ AllExecuted =>
          \A k \in 1..Len(walk) :
              \A line \in RetainedLines(fs0.fs[walk[k]], config.metadata_rules) :
                  /\ RenameDest(walk[k]) \in DOMAIN fs
                  /\ HasLine(fs[RenameDest(walk[k])], line)

\* the destination of a rename holds a file that is not the task's source
Overwrites(task) == task.dest \in DOMAIN fs /\ task.dest # task.src

\* C24: whenever execute_tasks hands a RENAME_MD task to execute_task, the
\* task's destination holds no file other than the task's source, so no
\* rename replaces another document.
C24_RenameNeverOverwrites ==
    (pc \in {"pre", "main"} /\ CurrentTask.type = RENAME_MD /\ ~Skips(CurrentTask)) =>
        ~Overwrites(CurrentTask)

\* the TransformMetadata tasks of a document
TransformTasksOf(doc) ==
    {j \in 1..Len(tasks) : tasks[j].type = TRANSFORM_METADATA /\ tasks[j].file = doc}

\* the text map_metadata writes for a text it has read
Remapped(text) == WriteLines(MappedLines(ReadLines(text)))

\* the text after k TransformMetadata tasks of the document have run
RECURSIVE RemappedTimes(_, _)
RemappedTimes(text, k) ==
    IF k = 0 THEN text ELSE RemappedTimes(Remapped(text), k - 1)

\* the first TransformMetadata task of a document is about to be executed
FirstTransformOf(task) ==
    /\ task.type = TRANSFORM_METADATA
    /\ IsFile(task.file)
    /\ \A j \in TransformTasksOf(task.file) : Status(tasks[j]) = "todo"

\* C25: when the TransformMetadata tasks of a document are executed, the
\* second and later ones do not transform the lines again: the document
\* after all k of them is the document after the first.
C25_TransformationsAppliedOnce ==
    (pc = "main" /\ FirstTransformOf(CurrentTask)) =>
        RemappedTimes(fs[CurrentTask.file], Cardinality(TransformTasksOf(CurrentTask.file)))
            = Remapped(fs[CurrentTask.file])

\* a line of the document that is not a field of the block the planner
\* found, or is a field no rule applies to
OutsideBlock(line, block, rules) ==
    \/ \A n \in 1..Len(block) : block[n] # Strip(line)
    \/ matching_keys(rules, Partition(Strip(line)).key) = <<>>

\* every such line of the lines before is among the lines after
OutsideKept(before, after, block, rules) ==
    \A n \in 1..Len(before) :
        OutsideBlock(before[n], block, rules) =>
            \E m \in 1..Len(after) : after[m] = before[n]

\* the deletions planned for a document
DeleteTasksOf(doc) == {j \in TransformTasksOf(doc) : tasks[j].action = "delete"}

TransformFrame(task, before, after, block) ==
    /\ OutsideKept(before, after, block, config.metadata_rules)
    /\ Len(after) = Len(before) - Cardinality(DeleteTasksOf(task.file))

\* C26: executing a TransformMetadata task on a document changes only the
\* fields of the metadata block found at planning time: every other line of
\* the document (body, heading or comment, field without a rule) is a line
\* of the document afterwards, unchanged, and the document loses as many
\* lines as fields were to be deleted.
C26_TransformTouchesOnlyTheBlock ==
    (pc = "main" /\ run = 1 /\ FirstTransformOf(CurrentTask)) =>
        TransformFrame(CurrentTask,
                       ReadLines(fs[CurrentTask.file]),
                       ReadLines(Remapped(fs[CurrentTask.file])),
                       read_metadata_lines(fs0.fs[CurrentTask.file], config.metadata_rules))

\* a task that takes the file away: a move of it, or a cleanup of its directory
TakesAway(task, f) ==
    \/ task.type = MOVE_ATTACHMENT /\ task.src = f
    \/ task.type = CLEANUP /\ task.dest = PathParent(f)

\* execute_tasks is about to hand a copy to execute_task, which will not skip it
CopyAttempted ==
    /\ pc \in {"pre", "main"}
    /\ CurrentTask.type = COPY_ATTACHMENT
    /\ ~Skips(CurrentTask)

\* C27: when a CopyAttachment task is attempted its source file exists: no
\* MoveAttachment task of that file and no Cleanup task of its directory
\* has been attempted before, in this call of execute_tasks or an earlier
\* one, whatever the order in which the documents were scanned.
C27_CopySourceStillThere ==
    CopyAttempted =>
        /\ IsFile(CurrentTask.src)
        /\ \A a \in 1..Len(attempts) : ~TakesAway(tasks[attempts[a]], CurrentTask.src)
        /\ \A j \in 1..Len(tasks) :
              TakesAway(tasks[j], CurrentTask.src) => Status(tasks[j]) \notin Terminal

\* C27 witness: a copy is attempted whose source file a task planned earlier
\* in the list moves away
C27_CopyOfFileMovedByEarlierTask ==
    /\ CopyAttempted
    /\ \E j \in 1..Len(tasks) :
          /\ TakesAway(tasks[j], CurrentTask.src)
          /\ j < pre_tasks(tasks)[idx]

\* the first line that begins with the anchor key and a colon, 0 if none
AnchorLine(lines, key) ==
    FirstOf({n \in 1..Len(lines) : StartsWith(lines[n], key \o <<":">>)})

\* the lines with one line put in after the first n of them
SplicedAfter(lines, n, line) == Take(lines, n) \o <<line>> \o Drop(lines, n)

\* the content is one new line next to line n, on the side the position names
SplicedAt(before, after, task, n) ==
    /\ n # 0
    /\ after = SplicedAfter(before, IF task.position = "before" THEN n - 1 ELSE n,
                            task.content \o <<"\n">>)

\* execute_tasks is about to hand an InsertContent task on a readable
\* document to execute_task, which will not skip it
InsertAttempted ==
    /\ pc \in {"pre", "main"}
    /\ CurrentTask.type = INSERT_CONTENT
    /\ ~Skips(CurrentTask)
    /\ IsFile(CurrentTask.file)

\* C28: executing an InsertContent task adds exactly one line, its content,
\* to the document, immediately before or after (as its position says) the
\* first line that begins with its anchor key and a colon, and leaves every
\* other line as it was.
C28_InsertAddsOneLine ==
    InsertAttempted =>
        SplicedAt(ReadLines(fs[CurrentTask.file]),
                  ReadLines(execute_task(CurrentTask, FALSE).fs[CurrentTask.file]),
                  CurrentTask,
                  AnchorLine(ReadLines(fs[CurrentTask.file]), CurrentTask.key))

\* the path mapping planned for a document: that of its UpdateReferences task
MappingsOf(doc) ==
    {tasks[j].path_mapping :
        j \in {i \in 1..Len(tasks) : tasks[i].type = UPDATE_ATTACH_REF /\ tasks[i].file = doc}}

HasKey(mapping, ref) == \E e \in 1..Len(mapping) : mapping[e].old = ref

\* a move or copy task of the document has the file the reference names as
\* its source
PlannedFromRef(doc, ref_path, types) ==
    \E j \in 1..Len(tasks) :
        /\ tasks[j].type \in types
        /\ OwnerOf(j) = doc
        /\ tasks[j].src = ref_path

\* every reference of the text that a move or copy task comes from is a key
\* of the document's path mapping, as written
RefsAreKeys(doc, refs) ==
    \A n \in 1..Len(refs) :
        PlannedFromRef(doc, PathOf(Unquote(refs[n])), {MOVE_ATTACHMENT, COPY_ATTACHMENT})
            => \E mapping \in MappingsOf(doc) : HasKey(mapping, refs[n])

\* no reference of the text names a file a move task of the document takes away
NoLinkToMoved(doc, refs) ==
    \A n \in 1..Len(refs) :
        ~PlannedFromRef(doc, PathOf(Unquote(refs[n])), {MOVE_ATTACHMENT})

UpdateLeavesNoOldLink(task) ==
    (task.type = UPDATE_ATTACH_REF /\ IsFile(task.file)) =>
        NoLinkToMoved(task.file,
                      local_references(execute_task(task, FALSE).fs[task.file]))

\* C29: after the scan, every reference of a document from which a
\* MoveAttachment or CopyAttachment task was generated is, exactly as it is
\* written in the document, a key of the document's path mapping; and
\* executing the document's UpdateReferences task leaves no link to the old
\* place of a file one of its MoveAttachment tasks moves.
C29_MappingKeysAreTheReferences ==
    pc = "scanned" =>
        /\ \A doc \in ScannedDocs : RefsAreKeys(doc, local_references(fs[doc]))
        /\ \A j \in 1..Len(tasks) : UpdateLeavesNoOldLink(tasks[j])

TextTaskTypes == {INSERT_CONTENT, UPDATE_ATTACH_REF, TRANSFORM_METADATA}

\* the status execute_task leaves on a task whose document cannot be opened
UnopenedMarkedFail(task, fault) ==
    (task.type \in TextTaskTypes /\ (fault \/ ~IsFile(task.file)))
        => execute_task(task, fault).task.status = "fail"

\* the status execute_task leaves on a Cleanup whose target is not there
MissingTargetMarkedFail(task) ==
    (task.type = CLEANUP /\ ~Exists(task.dest))
        => execute_task(task, FALSE).task.status = "fail"

\* C30: a task that execute_tasks is about to execute ends with status fail,
\* not done, when it is an InsertContent, UpdateReferences or
\* TransformMetadata task whose document cannot be opened, or a Cleanup task
\* whose target does not exist.
C30_DoneOnlyIfApplied ==
    (pc \in {"pre", "main"} /\ ~Skips(CurrentTask)) =>
        /\ \A fault \in BOOLEAN : UnopenedMarkedFail(CurrentTask, fault)
        /\ MissingTargetMarkedFail(CurrentTask)

\* position a of the call's attempts is a RenameDocument task and position b
\* a task on the text of the document it renames
RenamesTargetOf(a, b) ==
    /\ tasks[attempts[a]].type = RENAME_MD
    /\ tasks[attempts[b]].type \in TextTaskTypes
    /\ tasks[attempts[b]].file = tasks[attempts[a]].src

\* a task that was carried out has taken the file at f away or put another
\* file in its place
Displaced(f) ==
    \E i \in 1..Len(tasks) :
        /\ tasks[i].type \in {RENAME_MD, MOVE_ATTACHMENT, COPY_ATTACHMENT}
        /\ Status(tasks[i]) = "done"
        /\ tasks[i].src # tasks[i].dest
        /\ \/ tasks[i].dest = f
           \/ tasks[i].type # COPY_ATTACHMENT /\ tasks[i].src = f

\* C31: within a call of execute_tasks, a document's RenameDocument task is
\* attempted after every InsertContent, TransformMetadata and UpdateReferences
\* task on that document; and when such a task is executed, the file at the
\* path recorded for it is there and is the document that was scanned: no
\* task carried out before has moved it away or put another file in its place.
C31_RenameAfterTextTasks ==
    /\ \A a, b \in 1..Len(attempts) : RenamesTargetOf(a, b) => b < a
    /\ (pc \in {"pre", "main"} /\ ~Skips(CurrentTask) /\ CurrentTask.type \in TextTaskTypes)
          => (IsFile(CurrentTask.file) /\ ~Displaced(CurrentTask.file))

InsertActions(actions) == SelectSeq(actions, LAMBDA a : a.type = "insert")

\* the InsertContent pre-tasks among the planned tasks that are anchored on key
InsertsOn(planned, key) ==
    SelectSeq(planned,
              LAMBDA t : t.type = INSERT_CONTENT /\ t.key = key /\ IsPreTask(t))

\* the task list holds an InsertContent pre-task of the document for the action
InsertListed(doc, key, action) ==
    \E i \in 1..Len(tasks) :
        /\ tasks[i].type = INSERT_CONTENT
        /\ tasks[i].file = doc
        /\ tasks[i].key = key
        /\ tasks[i].position = action.at
        /\ tasks[i].content = action.content
        /\ IsPreTask(tasks[i])

\* the line's planning gives one pre-task for each insert action of its rule
InsertsForRule(doc, key, planned, inserts) ==
    /\ Len(InsertsOn(planned, key)) = Len(inserts)
    /\ \A n \in 1..Len(inserts) : InsertListed(doc, key, inserts[n])

InsertsForLine(doc, line, p, mk, rules) ==
    mk # <<>> =>
        InsertsForRule(doc, p.key, process_metadata_line(line, rules, doc),
                       InsertActions(rules[mk[1]].actions))

InsertsForLines(doc, lines, rules) ==
    \A n \in 1..Len(lines) :
        InsertsForLine(doc, lines[n], Partition(lines[n]),
                       matching_keys(rules, Partition(lines[n]).key), rules)

\* C32: after the scan, for every metadata line of a scanned document whose
\* rule lists k insert actions, the line's planning has produced exactly k
\* InsertContent pre-tasks anchored on the line's key, one for each of these
\* actions, whatever other actions the rule holds.
C32_OnePreTaskPerInsertAction ==
    pc = "scanned" =>
        \A doc \in ScannedDocs :
            InsertsForLines(doc, read_metadata_lines(fs[doc], config.metadata_rules),
                            config.metadata_rules)

\* the rules whose key the field key starts with, the longest key first among
\* them: the rule whose key is the field key, if there is one, is the first
LongestMatch(rules, key, mk) ==
    CHOOSE i \in {mk[n] : n \in 1..Len(mk)} :
        \A n \in 1..Len(mk) : Len(rules[mk[n]].key) <= Len(rules[i].key)

\* the tasks the line gives under the rule that should apply to it
TasksByLongestMatch(p, rules, mk, current_file) ==
    IF mk = <<>> THEN <<>>
    ELSE TasksForActions(p.key, Strip(p.value),
                         rules[LongestMatch(rules, p.key, mk)].actions, current_file)

Listed(planned) ==
    \A n \in 1..Len(planned) :
        \E i \in 1..Len(tasks) : tasks[i] = InitStatus(planned[n])

RuleAppliedTo(doc, line, expected, rules) ==
    /\ process_metadata_line(line, rules, doc) = expected
    /\ Listed(expected)

RuleAppliedToLines(doc, lines, rules) ==
    \A n \in 1..Len(lines) :
        RuleAppliedTo(doc, lines[n],
                      TasksByLongestMatch(Partition(lines[n]), rules,
                                          matching_keys(rules, Partition(lines[n]).key),
                                          doc),
                      rules)

\* C33: after the scan, the tasks planned for every metadata line of a scanned
\* document are those of the rule whose key equals the field key, if there is
\* one, and otherwise of the rule with the longest key the field key starts
\* with, in whatever order the configuration lists the rules; a line with no
\* such rule gives no task.
C33_ExactThenLongestPrefixRule ==
    pc = "scanned" =>
        \A doc \in ScannedDocs :
            RuleAppliedToLines(doc, read_metadata_lines(fs[doc], config.metadata_rules),
                               config.metadata_rules)

\* the errors the scan of a document should count if each defective reference
\* counted once: those of its metadata lines, one for a document without
\* content, one for each defective reference
ErrorsCountedOnce(text, rules) ==
    MetadataErrors(text, rules)
    + (IF text = <<>> THEN 1 ELSE Cardinality(DefectiveRefs(local_references(text))))

\* no move or copy task has the file as its source, and no path mapping of
\* the document has its path as a key
NothingPlannedFor(doc, ref_path) ==
    /\ ~PlannedFromRef(doc, ref_path, {MOVE_ATTACHMENT, COPY_ATTACHMENT})
    /\ \A mapping \in MappingsOf(doc) : ~HasKey(mapping, Quote(PathStr(ref_path)))

\* a defective reference is skipped and a reference to a file that can be
\* taken has its task, wherever it stands among the references
RefsHandled(doc, refs, defective) ==
    \A n \in 1..Len(refs) :
        IF n \in defective
        THEN NothingPlannedFor(doc, PathOf(Unquote(refs[n])))
        ELSE IsFile(PathOf(Unquote(refs[n])))
                => \E j \in 1..Len(tasks) :
                      /\ tasks[j].type \in {MOVE_ATTACHMENT, COPY_ATTACHMENT}
                      /\ tasks[j].src = PathOf(Unquote(refs[n]))

\* C34: after the scan, the statistics' error counter has risen by one for
\* every local reference that does not resolve to an existing file or that
\* resolves to a file whose extension is not allowed (beside the errors of
\* metadata lines and empty documents); such a reference has no move or
\* copy task and no path-mapping entry, and the other references of its
\* document have their tasks.
C34_DefectiveReferenceCountsOnce ==
    pc = "scanned" =>
        /\ stats.errors =
              SumSeq([k \in 1..Len(walk) |->
                          ErrorsCountedOnce(fs[walk[k]], config.metadata_rules)])
        /\ \A doc \in ScannedDocs :
              RefsHandled(doc, local_references(fs[doc]),
                          DefectiveRefs(local_references(fs[doc])))

\* the rule goes through the replace pipeline: no delete, not a lone retain
Piped(actions) ==
    /\ \A i \in 1..Len(actions) : actions[i].type # "delete"
    /\ ~(Len(actions) = 1 /\ actions[1].type = "retain")

\* a replace task is planned for the line exactly when the final pair is not
\* the input pair
ReplaceIffChanged(planned, old, new) == (planned # <<>>) <=> (new # old)

ReplaceIffChangedFor(doc, p, actions) ==
    Piped(actions) =>
        ReplaceIffChanged(ReplaceTasksFor(doc, p.key, Strip(p.value)),
                          p.key \o ColonSpace \o Strip(p.value),
                          ExpectedNew(p.key, Strip(p.value), actions))

ReplaceIffChangedAt(doc, p, mk, rules) ==
    mk # <<>> => ReplaceIffChangedFor(doc, p, rules[mk[1]].actions)

ReplaceIffChangedIn(doc, lines, rules) ==
    \A n \in 1..Len(lines) :
        ReplaceIffChangedAt(doc, Partition(lines[n]),
                            matching_keys(rules, Partition(lines[n]).key), rules)

\* C35: after the scan, a TransformMetadata replace task is planned for a
\* metadata line of a scanned document if and only if the pair its rule's
\* actions end with differs from the pair of the line; a rule whose actions
\* leave the line as it is gives no task.
C35_ReplaceTaskIffLineChanges ==
    pc = "scanned" =>
        \A doc \in ScannedDocs :
            ReplaceIffChangedIn(doc, read_metadata_lines(fs[doc], config.metadata_rules),
                                config.metadata_rules)

\* a 'key: value' line: it holds ": " and is neither blank nor '---'
FieldShaped(line) ==
    /\ Contains(Strip(line), ColonSpace)
    /\ Strip(line) # <<>>
    /\ Strip(line) # Dashes

\* a line that is no comment and whose key is a rule key
RuledLine(line, rules) ==
    /\ ~StartsWith(Strip(line), <<"#">>)
    /\ Partition(line).sep # <<>>
    /\ Partition(line).key \in RuleKeys(rules)

\* the first such line among the first lines of the document, 0 if none
FirstRuledLine(content, rules) ==
    FirstOf({i \in 1..Len(content) : i <= FirstLines /\ RuledLine(content[i], rules)})

\* the 'key: value' lines that stand next to one another around line start
RunAround(content, start) ==
    SubSeq(content,
           FirstOf({j \in 1..start : \A k \in j..start : FieldShaped(content[k])}),
           LastOf({j \in start..Len(content) : \A k \in start..j : FieldShaped(content[k])}))

BlockAround(content, start) ==
    IF start = 0 THEN <<>> ELSE Map(RunAround(content, start), Strip)

MetadataTasksOf(doc) ==
    {i \in 1..Len(tasks) :
        /\ tasks[i].type \in {TRANSFORM_METADATA, INSERT_CONTENT}
        /\ tasks[i].file = doc}

BlockRead(doc, lines, block) ==
    /\ lines = block
    /\ block = <<>> => MetadataTasksOf(doc) = {}

\* C36: after the scan, the metadata lines read from every scanned document
\* are none, and the document has no metadata task, when none of its first
\* FirstLines lines, comments apart, is a 'key: value' line whose key is a
\* rule key; otherwise they are, in document order, exactly the 'key: value'
\* lines that stand next to one another around the first such line, with no
\* blank line, no '---' line and no line beyond a line that is not a
\* 'key: value' line.
C36_BlockIsTheContiguousFields ==
    pc = "scanned" =>
        \A doc \in ScannedDocs :
            BlockRead(doc, read_metadata_lines(fs[doc], config.metadata_rules),
                      BlockAround(ReadLines(fs[doc]),
                                  FirstRuledLine(ReadLines(fs[doc]), config.metadata_rules)))

\* a pass of a loop of execute_tasks: one more task is handed to execute_task
LoopPass ==
    /\ pc \in {"pre", "main"}
    /\ \E i \in 1..Len(tasks) : attempts' = Append(attempts, i)

\* main() as it is written: the scan, the confirmation and one call of
\* execute_tasks
MainNext ==
    \/ ScanDirectory
    \/ ScanMarkdownFile
    \/ ScanMarkdownFileRaises
    \/ Cancel
    \/ execute_tasks
    \/ ExecutePreTask
    \/ ExecuteMainTask

\* a for loop that has a task left goes on to it: the passes of the two loops
\* of execute_tasks are weakly fair
MainSpec == Init /\ [][MainNext]_vars /\ WF_attempts(LoopPass)

\* no effect has raised: no task is marked fail
NoneRaised == \A i \in 1..Len(tasks) : Status(tasks[i]) # "fail"

AttemptedOnce(i) == Cardinality({a \in 1..Len(attempts) : attempts[a] = i}) = 1

\* a call that has returned without any failure went through every task of
\* the list once, and every task is done
ReturnedAllDone ==
    (pc = "returned" /\ NoneRaised) =>
        \A i \in 1..Len(tasks) : AttemptedOnce(i) /\ Status(tasks[i]) = "done"

\* C37: a call of execute_tasks comes to its end; when no effect has raised,
\* it ends by returning, every task of the list was handed to execute_task
\* exactly once in the call, and every task's status is done.
C37_ExecutionTerminatesAllDone ==
    /\ []ReturnedAllDone
    /\ []((pc = "raised") => ~NoneRaised)
    /\ (pc \in {"pre", "main"}) ~> (pc \in {"returned", "raised"})

\* C37 witness: a first call has returned over a list of several tasks, some
\* of them pre-tasks, without any failure
C37_CallReturnedWithoutFailure ==
    /\ pc = "returned"
    /\ run = 1
    /\ NoneRaised
    /\ Len(tasks) >= 3
    /\ \E i \in 1..Len(tasks) : MarkedPre(i)
    /\ \E i \in 1..Len(tasks) : tasks0[i].type \in {UPDATE_ATTACH_REF, CLEANUP}

====
